---- MODULE Spec2Model ----
(***************************************************************************)
(* chronoutil: month shifting (delta.rs), RelativeDuration arithmetic on   *)
(* dates (relative_duration.rs) and the DateRule iterator (rule.rs).       *)
(*                                                                         *)
(* A NaiveDate is a record [year, month, day]; a chrono Duration is a      *)
(* whole number of seconds; an Option is a record tagged "None" or "Some". *)
(***************************************************************************)
EXTENDS Integers, Sequences, FiniteSets, TLC

VARIABLES rules, emitted, ret, nones, made, outcome, call

vars == <<rules, emitted, ret, nones, made, outcome, call>>

(***************************************************************************)
(* Bounds of the model.                                                    *)
(***************************************************************************)
\* largest cursor a rule is driven to
MaxCursor == 4
\* largest argument given to with_count
MaxCount == 3
\* how many times an exhausted rule is polled again
MaxNones == 2
\* month counts given to the shifting functions lie in -MaxShift..MaxShift
MaxShift == 26

(***************************************************************************)
(* Option values.                                                          *)
(***************************************************************************)
None == [tag |-> "None"]

Some(v) == [tag |-> "Some", val |-> v]

IsSome(o) == o.tag = "Some"

IsNone(o) == o.tag = "None"

\* the one element of a singleton set. A Rust `let` computes its value once
\* and names it: The({e(x) : x \in {v}}) is e with x naming the value of v.
The(S) == CHOOSE x \in S : TRUE

(***************************************************************************)
(* Rust integer division and remainder truncate toward zero.               *)
(***************************************************************************)
Abs(x) == IF x < 0 THEN -x ELSE x

\* for a divisor above zero the quotient is taken from the rounded-down one,
\* which needs no negation of a (i32::MIN has none)
TruncDiv(a, b) ==
    IF b > 0
    THEN (IF a >= 0 \/ a % b = 0 THEN a \div b ELSE (a \div b) + 1)
    ELSE IF (a >= 0) = (b > 0) THEN Abs(a) \div Abs(b)
    ELSE -(Abs(a) \div Abs(b))

TruncRem(a, b) == a - b * TruncDiv(a, b)

(***************************************************************************)
(* delta.rs                                                                *)
(***************************************************************************)
\* is_leap_year of the Julian calendar: every fourth year
is_leap_year_every_fourth(year) == TruncRem(year, 4) = 0

is_leap_year(year) ==
    TruncRem(year, 4) = 0 /\ (TruncRem(year, 100) # 0 \/ TruncRem(year, 400) = 0)

\* normalise_day leaving the day as it is
normalise_day_unclipped(year, month, day) == day

normalise_day(year, month, day) ==
    IF day <= 28 THEN day
    ELSE IF month = 2 THEN 28 + (IF is_leap_year(year) THEN 1 ELSE 0)
    ELSE IF day = 31 /\ (month = 4 \/ month = 6 \/ month = 9 \/ month = 11) THEN 30
    ELSE day

(***************************************************************************)
(* The proleptic Gregorian calendar of chrono::NaiveDate, which the        *)
(* Datelike field replacements consult.                                    *)
(***************************************************************************)
MkDate(y, m, d) == [year |-> y, month |-> m, day |-> d]

DaysInMonth(y, m) ==
    IF m = 2 THEN (IF (y % 4 = 0 /\ y % 100 # 0) \/ y % 400 = 0 THEN 29 ELSE 28)
    ELSE IF m \in {4, 6, 9, 11} THEN 30
    ELSE 31

\* the years chrono::NaiveDate can hold (NaiveDate::MIN is -262143-01-01 and
\* NaiveDate::MAX is 262142-12-31)
YearInRange(y) == y >= -262143 /\ y <= 262142

ValidDate(y, m, d) ==
    YearInRange(y) /\ m \in 1..12 /\ d >= 1 /\ d <= DaysInMonth(y, m)

\* Datelike::with_day / with_month / with_year of NaiveDate: None when the
\* resulting date does not exist.
NaiveWithDay(date, d) ==
    IF ValidDate(date.year, date.month, d)
    THEN Some(MkDate(date.year, date.month, d)) ELSE None

NaiveWithMonth(date, m) ==
    IF ValidDate(date.year, m, date.day)
    THEN Some(MkDate(date.year, m, date.day)) ELSE None

NaiveWithYear(date, y) ==
    IF ValidDate(y, date.month, date.day)
    THEN Some(MkDate(y, date.month, date.day)) ELSE None

\* chrono::DateTime<Tz> in the zone of the tests, Australia/Melbourne: a local
\* date with an hour of the day. The clocks go forward at 02:00 on the first
\* Sunday of October (the local hour 02 does not exist that day) and back at
\* 03:00 on the first Sunday of April (the local hour 02 comes twice).
MkDateTime(y, m, d, h) == [year |-> y, month |-> m, day |-> d, hour |-> h]

TransitionHour == 2

GapDays ==
    {MkDate(2018, 10, 7), MkDate(2019, 10, 6), MkDate(2020, 10, 4),
     MkDate(2021, 10, 3), MkDate(2022, 10, 2), MkDate(2023, 10, 1),
     MkDate(2024, 10, 6)}

FoldDays ==
    {MkDate(2018, 4, 1), MkDate(2019, 4, 7), MkDate(2020, 4, 5),
     MkDate(2021, 4, 4), MkDate(2022, 4, 3), MkDate(2023, 4, 2),
     MkDate(2024, 4, 7)}

InGap(dt) ==
    dt.hour = TransitionHour /\ MkDate(dt.year, dt.month, dt.day) \in GapDays

InFold(dt) ==
    dt.hour = TransitionHour /\ MkDate(dt.year, dt.month, dt.day) \in FoldDays

\* TimeZone::from_local_datetime(..).single(): the date-time of a local time
\* that exists once in the zone
LocalSingle(dt) == IF InGap(dt) \/ InFold(dt) THEN None ELSE Some(dt)

\* Datelike::with_day / with_month / with_year of DateTime<Tz>: the field
\* replaced in the local date, and the local time resolved in the zone again
ZonedWithDay(dt, d) ==
    IF ValidDate(dt.year, dt.month, d)
    THEN LocalSingle([dt EXCEPT !.day = d]) ELSE None

ZonedWithMonth(dt, m) ==
    IF ValidDate(dt.year, m, dt.day)
    THEN LocalSingle([dt EXCEPT !.month = m]) ELSE None

ZonedWithYear(dt, y) ==
    IF ValidDate(y, dt.month, dt.day)
    THEN LocalSingle([dt EXCEPT !.year = y]) ELSE None

\* D: Datelike is NaiveDate or DateTime<Tz>
IsZoned(date) == "hour" \in DOMAIN date

DatelikeWithDay(date, d) ==
    IF IsZoned(date) THEN ZonedWithDay(date, d) ELSE NaiveWithDay(date, d)

DatelikeWithMonth(date, m) ==
    IF IsZoned(date) THEN ZonedWithMonth(date, m) ELSE NaiveWithMonth(date, m)

DatelikeWithYear(date, y) ==
    IF IsZoned(date) THEN ZonedWithYear(date, y) ELSE NaiveWithYear(date, y)

\* the `?` operator: the first None ends the chain
ThenDay(o, d) ==
    The({IF IsNone(x) THEN None ELSE DatelikeWithDay(x.val, d) : x \in {o}})

ThenMonth(o, m) ==
    The({IF IsNone(x) THEN None ELSE DatelikeWithMonth(x.val, m) : x \in {o}})

ThenYear(o, y) ==
    The({IF IsNone(x) THEN None ELSE DatelikeWithYear(x.val, y) : x \in {o}})

\* the chain of field replacements that ends shift_months_opt
ReplaceFields(date, year, month, day) ==
    IF day <= 28
    THEN ThenYear(ThenMonth(DatelikeWithDay(date, day), month), year)
    ELSE ThenDay(ThenYear(ThenMonth(DatelikeWithDay(date, 1), month), year), day)

\* the same chain asked of the day first whatever the day
ReplaceStepsDayFirst(date, year, month, day) ==
    <<<<date.year, date.month, day>>, <<date.year, month, day>>,
      <<year, month, day>>>>

\* the (year, month, day) each replacement of that chain asks the date type
\* for, in the order of the chain
ReplaceSteps(date, year, month, day) ==
    IF day <= 28
    THEN <<<<date.year, date.month, day>>, <<date.year, month, day>>,
           <<year, month, day>>>>
    ELSE <<<<date.year, date.month, 1>>, <<date.year, month, 1>>,
           <<year, month, 1>>, <<year, month, day>>>>

\* year and month as first computed, from total = date.month() + months
YearMonthOf(year, total) ==
    <<year + TruncDiv(total, 12), TruncRem(total, 12)>>

\* if month < 1 { year -= 1; month += 12; }
Borrowed(ym) == IF ym[2] < 1 THEN <<ym[1] - 1, ym[2] + 12>> ELSE ym

\* shift_months_opt without the borrow into the year for a month below 1
shift_months_opt_no_borrow(date, months) ==
    The({ReplaceFields(date, ym[1], ym[2],
                       normalise_day(ym[1], ym[2], date.day)) :
            ym \in {YearMonthOf(date.year, date.month + months)}})

shift_months_opt(date, months) ==
    The({ReplaceFields(date, ym[1], ym[2],
                       normalise_day(ym[1], ym[2], date.day)) :
            ym \in {Borrowed(YearMonthOf(date.year, date.month + months))}})

\* the replacements shift_months_opt asks for
ShiftSteps(date, months) ==
    The({ReplaceSteps(date, ym[1], ym[2],
                      normalise_day(ym[1], ym[2], date.day)) :
            ym \in {Borrowed(YearMonthOf(date.year, date.month + months))}})

\* Option::unwrap; a None here is a panic, which ends the operation that
\* unwraps: the value Panic stands for it
Panic == [tag |-> "Panic"]

IsPanic(v) == "tag" \in DOMAIN v /\ v.tag = "Panic"

Unwrap(o) == The({IF IsSome(x) THEN x.val ELSE Panic : x \in {o}})

shift_months(date, months) == Unwrap(shift_months_opt(date, months))

shift_years_opt(date, years) == shift_months_opt(date, years * 12)

shift_years(date, years) == Unwrap(shift_years_opt(date, years))

\* with_day handing the day to the date type as it was given
with_day_unnormalised(date, day) ==
    IF day = 0 \/ day > 31 THEN None ELSE DatelikeWithDay(date, day)

with_day(date, day) ==
    IF day = 0 \/ day > 31 THEN None
    ELSE DatelikeWithDay(date, normalise_day(date.year, date.month, day))

\* Some(v) around a value that was computed, a panic ending the operation
SomeOf(v) == The({IF IsPanic(x) THEN Panic ELSE Some(x) : x \in {v}})

\* with_month shifting by the month itself instead of the difference
with_month_no_delta(date, month) ==
    IF month = 0 \/ month > 12 THEN None
    ELSE SomeOf(shift_months(date, month))

with_month(date, month) ==
    IF month = 0 \/ month > 12 THEN None
    ELSE SomeOf(shift_months(date, month - date.month))

with_month_opt(date, month) ==
    IF month = 0 \/ month > 12 THEN None
    ELSE shift_months_opt(date, month - date.month)

with_year_opt(date, year) == shift_years_opt(date, year - date.year)

with_year(date, year) == Unwrap(with_year_opt(date, year))

(***************************************************************************)
(* lib.rs: the earlier delta module, whose shift takes years and months.   *)
(***************************************************************************)
\* year and month as shift computes them, the borrow included
ShiftYearMonth(date, y, m) ==
    Borrowed(<<date.year + y + TruncDiv(m, 12), date.month + TruncRem(m, 12)>>)

\* the day as shift adjusts it to the month
ShiftDay(year, month, day) ==
    IF day > 28 /\ month = 2 THEN (IF is_leap_year(year) THEN 29 ELSE 28)
    ELSE IF day = 31 /\ (month = 4 \/ month = 6 \/ month = 9 \/ month = 11)
    THEN 30
    ELSE day

\* with_day(1), with_year, with_month, with_day, each unwrapped: the first
\* None is a panic
shift(date, y, m) ==
    The({Unwrap(ThenDay(ThenMonth(ThenYear(DatelikeWithDay(date, 1), ym[1]),
                                  ym[2]),
                        ShiftDay(ym[1], ym[2], date.day))) :
            ym \in {ShiftYearMonth(date, y, m)}})

(***************************************************************************)
(* chrono: NaiveDate + Duration adds the whole days of the duration        *)
(* (Duration::num_days truncates toward zero) on the day count of the      *)
(* proleptic Gregorian calendar.                                           *)
(***************************************************************************)
SecsPerDay == 24 * 60 * 60

DaysBeforeYear(y) ==
    365 * (y - 1) + ((y - 1) \div 4) - ((y - 1) \div 100) + ((y - 1) \div 400)

CumDays == <<0, 31, 59, 90, 120, 151, 181, 212, 243, 273, 304, 334>>

DaysBeforeMonth(y, m) ==
    CumDays[m] + (IF m > 2 /\ DaysInMonth(y, 2) = 29 THEN 1 ELSE 0)

\* day number of a date, 0001-01-01 being day 1
DateToDays(date) ==
    DaysBeforeYear(date.year) + DaysBeforeMonth(date.year, date.month) + date.day

\* the date of a day number: the inverse of DateToDays, computed over 400-year
\* cycles that start on a 1st of March (era, day of era, year of era, day of
\* the March-based year, March-based month)
CivilOfMarch(y, mp, d) ==
    MkDate(IF mp < 10 THEN y ELSE y + 1, IF mp < 10 THEN mp + 3 ELSE mp - 9, d)

CivilOfDoy(y, doy, mp) == CivilOfMarch(y, mp, doy - ((153 * mp + 2) \div 5) + 1)

CivilOfYoe(era, doe, yoe) ==
    The({CivilOfDoy(yoe + era * 400, doy, (5 * doy + 2) \div 153) :
            doy \in {doe - (365 * yoe + (yoe \div 4) - (yoe \div 100))}})

CivilOfDoe(era, doe) ==
    The({CivilOfYoe(era, doe, yoe) :
            yoe \in {(doe - (doe \div 1460) + (doe \div 36524)
                          - (doe \div 146096)) \div 365}})

CivilOfEra(z, era) == The({CivilOfDoe(era, doe) : doe \in {z - era * 146097}})

DaysToDate(n) == The({CivilOfEra(z, z \div 146097) : z \in {n + 305}})

NaiveAddDuration(date, secs) ==
    DaysToDate(DateToDays(date) + TruncDiv(secs, SecsPerDay))

\* the derived ordering of NaiveDate
DateLt(a, b) ==
    \/ a.year < b.year
    \/ a.year = b.year /\ a.month < b.month
    \/ a.year = b.year /\ a.month = b.month /\ a.day < b.day

DateLe(a, b) == a = b \/ DateLt(a, b)

(***************************************************************************)
(* relative_duration.rs                                                    *)
(***************************************************************************)
RelativeDuration(m, secs) == [months |-> m, duration |-> secs]

RelNeg(r) == RelativeDuration(-r.months, -r.duration)

RelAdd(a, b) == RelativeDuration(a.months + b.months, a.duration + b.duration)

RelMul(r, rhs) == RelativeDuration(r.months * rhs, r.duration * rhs)

\* the addition with the two components applied in the other order
DateAddRelDurationFirst(date, rhs) ==
    The({shift_months(moved, rhs.months) :
            moved \in {NaiveAddDuration(date, rhs.duration)}})

\* a panic in computing the left operand ends the addition
AddIfDate(date, secs) ==
    IF IsPanic(date) THEN Panic ELSE NaiveAddDuration(date, secs)

\* impl Add<RelativeDuration> for NaiveDate
DateAddRel(date, rhs) ==
    The({AddIfDate(shifted, rhs.duration) :
            shifted \in {shift_months(date, rhs.months)}})

\* impl Sub<RelativeDuration> for NaiveDate
DateSubRel(date, rhs) == DateAddRel(date, RelNeg(rhs))

(***************************************************************************)
(* rule.rs: DateRule<NaiveDate>                                            *)
(***************************************************************************)
DateRule(freq, start, end, count, rolling_day, current_count) ==
    [freq |-> freq, start |-> start, end |-> end, count |-> count,
     rolling_day |-> rolling_day, current_count |-> current_count]

new(start, freq) == DateRule(freq, start, None, None, None, 0)

monthly(from) == new(from, RelativeDuration(1, 0))

\* with_count carrying the receiver's cursor over
with_count_keeps_cursor(self, number) ==
    DateRule(self.freq, self.start, None, Some(number), self.rolling_day,
             self.current_count)

\* with_count leaving the end of its receiver in place
with_count_keeps_end(self, number) ==
    DateRule(self.freq, self.start, self.end, Some(number), self.rolling_day, 0)

with_count(self, number) ==
    DateRule(self.freq, self.start, None, Some(number), self.rolling_day, 0)

\* with_end carrying the receiver's cursor over
with_end_keeps_cursor(self, end) ==
    DateRule(self.freq, self.start, Some(end), None, self.rolling_day,
             self.current_count)

with_end(self, end) ==
    DateRule(self.freq, self.start, Some(end), None, self.rolling_day, 0)

\* with_rolling_day that does not copy the count of its receiver
with_rolling_day_drops_count(self, rolling_day) ==
    IF rolling_day = 0 \/ rolling_day > 31
    THEN [tag |-> "Err"]
    ELSE [tag |-> "Ok",
          val |-> DateRule(self.freq, self.start, self.end, None,
                           Some(rolling_day), self.current_count)]

\* with_rolling_day with the range test on the upper side only
with_rolling_day_accepts_zero(self, rolling_day) ==
    IF rolling_day > 31
    THEN [tag |-> "Err"]
    ELSE [tag |-> "Ok",
          val |-> DateRule(self.freq, self.start, self.end, self.count,
                           Some(rolling_day), self.current_count)]

\* Result<Self, String>: tag "Err" or tag "Ok" with the rule
with_rolling_day(self, rolling_day) ==
    IF rolling_day = 0 \/ rolling_day > 31
    THEN [tag |-> "Err"]
    ELSE [tag |-> "Ok",
          val |-> DateRule(self.freq, self.start, self.end, self.count,
                           Some(rolling_day), self.current_count)]

\* the step added once per index to the value of the index before
RECURSIVE ChainedSteps(_, _, _)
ChainedSteps(date, freq, n) ==
    IF n = 0 THEN date ELSE DateAddRel(ChainedSteps(date, freq, n - 1), freq)

StartPlusStepsChained(self) ==
    ChainedSteps(self.start, self.freq, self.current_count)

\* let mut current_date = self.start + self.freq * self._current_count as i32
StartPlusSteps(self) ==
    DateAddRel(self.start, RelMul(self.freq, self.current_count))

\* the rolling day set with the date's own with_day, the day not clipped to
\* the month
RollIfDateUnclipped(date, rolling_day) ==
    IF IsPanic(date) THEN Panic ELSE Unwrap(NaiveWithDay(date, rolling_day))

\* ... followed by the rolling-day adjustment
RollIfDate(date, rolling_day) ==
    IF IsPanic(date) THEN Panic ELSE Unwrap(with_day(date, rolling_day))

CurrentDate(self) ==
    IF IsSome(self.rolling_day)
    THEN The({RollIfDate(current_date, self.rolling_day.val) :
                 current_date \in {StartPlusSteps(self)}})
    ELSE StartPlusSteps(self)

\* the count test off by one
CountReachedStrict(self) ==
    IsSome(self.count) /\ self.current_count > self.count.val

CountReached(self) ==
    IsSome(self.count) /\ self.current_count >= self.count.val

\* the end test with the end date itself still emitted
EndCrossedStrict(self, current_date) ==
    /\ IsSome(self.end)
    /\ \/ DateLe(self.start, self.end.val) /\ DateLt(self.end.val, current_date)
       \/ DateLt(self.end.val, self.start) /\ DateLt(current_date, self.end.val)

\* the end test that only stops on the end date itself
EndCrossedExact(self, current_date) ==
    IsSome(self.end) /\ current_date = self.end.val

EndCrossed(self, current_date) ==
    /\ IsSome(self.end)
    /\ \/ DateLe(self.start, self.end.val) /\ DateLe(self.end.val, current_date)
       \/ DateLt(self.end.val, self.start) /\ DateLe(current_date, self.end.val)

\* next() from the end test on, with the cursor advanced before the test
AfterCountCheckCountsFirst(self, current_date) ==
    IF IsPanic(current_date) THEN [item |-> Panic, self |-> self]
    ELSE IF EndCrossed(self, current_date)
    THEN [item |-> None, self |-> [self EXCEPT !.current_count = @ + 1]]
    ELSE [item |-> Some(current_date),
          self |-> [self EXCEPT !.current_count = @ + 1]]

\* next() once current_date is computed: the end test, then the increment
AfterCountCheck(self, current_date) ==
    IF IsPanic(current_date) THEN [item |-> Panic, self |-> self]
    ELSE IF EndCrossed(self, current_date)
    THEN [item |-> None, self |-> self]
    ELSE [item |-> Some(current_date),
          self |-> [self EXCEPT !.current_count = @ + 1]]

\* Iterator::next: the item returned (Panic when the call panics) and the rule
\* after the call
DateRuleNext(self) ==
    IF CountReached(self) THEN [item |-> None, self |-> self]
    ELSE The({AfterCountCheck(self, current_date) :
                 current_date \in {CurrentDate(self)}})

(***************************************************************************)
(* Arguments the callers pass.                                             *)
(***************************************************************************)
Starts ==
    {MkDate(2020, 1, 30), MkDate(2020, 3, 31), MkDate(2020, 1, 15)}

\* months(1), months(-1), days(1), days(-1), hours(12), months(1) + days(1)
Freqs ==
    {RelativeDuration(1, 0), RelativeDuration(-1, 0),
     RelativeDuration(0, SecsPerDay), RelativeDuration(0, -SecsPerDay),
     RelativeDuration(0, SecsPerDay \div 2), RelativeDuration(1, SecsPerDay)}

Ends == Starts \cup {MkDate(2019, 12, 31), MkDate(2020, 1, 17)}

RollingDays == {0, 1, 31, 32}

(***************************************************************************)
(* The state: the DateRule values a caller holds, in the order they were   *)
(* made, and what each has returned so far.  Under Spec the caller keeps   *)
(* the rule made by new and derives one further rule from it, so both can  *)
(* be iterated side by side; under ChainSpec the caller holds one rule and *)
(* rebinds it to the result of every builder call, so the builders are     *)
(* applied in every order and to receivers in every configuration.         *)
(*   rules[i]    the i-th rule                                             *)
(*   emitted[i]  the values its next() has returned, in order              *)
(*   ret[i]      what its last next() returned (NotCalled before the first)*)
(*   nones[i]    how many times its next() has returned no value           *)
(*   made[i]     the call that made it: the operation, the receiver's      *)
(*               index and the receiver as it was at the call              *)
(*   outcome     the last builder call: the operation, its argument and    *)
(*               whether it returned a rule                                *)
(*   call        the last call of a free function (ShiftSpec only)         *)
(***************************************************************************)
NotCalled == [tag |-> "NotCalled"]

NoCall == [fn |-> "none", date |-> MkDate(0, 0, 0), months |-> 0, dur |-> 0,
           out |-> None]

Init ==
    \E start \in Starts, freq \in Freqs :
        /\ rules = <<new(start, freq)>>
        /\ emitted = << <<>> >>
        /\ ret = <<NotCalled>>
        /\ nones = <<0>>
        /\ made = <<[op |-> "new", from |-> 0, recv |-> new(start, freq)]>>
        /\ outcome = [op |-> "new", arg |-> 0, ok |-> TRUE]
        /\ call = NoCall

\* a builder that also rewinds its receiver
BuiltRewindingReceiver(op, arg, i, r) ==
    /\ rules' = Append([rules EXCEPT ![i].current_count = 0], r)
    /\ emitted' = Append(emitted, <<>>)
    /\ ret' = Append(ret, NotCalled)
    /\ nones' = Append(nones, 0)
    /\ made' = Append(made, [op |-> op, from |-> i, recv |-> rules[i]])
    /\ outcome' = [op |-> op, arg |-> arg, ok |-> TRUE]
    /\ UNCHANGED call

\* a builder returned the rule r, made by op from rules[i]
Built(op, arg, i, r) ==
    /\ rules' = Append(rules, r)
    /\ emitted' = Append(emitted, <<>>)
    /\ ret' = Append(ret, NotCalled)
    /\ nones' = Append(nones, 0)
    /\ made' = Append(made, [op |-> op, from |-> i, recv |-> rules[i]])
    /\ outcome' = [op |-> op, arg |-> arg, ok |-> TRUE]
    /\ UNCHANGED call

WithCount(i, number) ==
    /\ Len(rules) = 1
    /\ Built("with_count", number, i, with_count(rules[i], number))

WithEnd(i, end) ==
    /\ Len(rules) = 1
    /\ Built("with_end", end, i, with_end(rules[i], end))

WithRollingDay(i, rolling_day) ==
    /\ Len(rules) = 1
    /\ LET res == with_rolling_day(rules[i], rolling_day)
       IN  IF res.tag = "Ok"
           THEN Built("with_rolling_day", rolling_day, i, res.val)
           ELSE /\ outcome' = [op |-> "with_rolling_day", arg |-> rolling_day,
                            ok |-> FALSE]
                /\ UNCHANGED <<rules, emitted, ret, nones, made, call>>

\* rule = rule.with_...(): the caller keeps only the rule r a builder returned
Rebound(op, arg, r) ==
    /\ rules' = <<r>>
    /\ emitted' = << <<>> >>
    /\ ret' = <<NotCalled>>
    /\ nones' = <<0>>
    /\ made' = <<[op |-> op, from |-> 1, recv |-> rules[1]]>>
    /\ outcome' = [op |-> op, arg |-> arg, ok |-> TRUE]
    /\ UNCHANGED call

ChainWithCount(number) ==
    Rebound("with_count", number, with_count(rules[1], number))

ChainWithEnd(end) == Rebound("with_end", end, with_end(rules[1], end))

ChainWithRollingDay(rolling_day) ==
    LET res == with_rolling_day(rules[1], rolling_day)
    IN  IF res.tag = "Ok"
        THEN Rebound("with_rolling_day", rolling_day, res.val)
        ELSE /\ outcome' = [op |-> "with_rolling_day", arg |-> rolling_day,
                            ok |-> FALSE]
             /\ UNCHANGED <<rules, emitted, ret, nones, made, call>>

\* rules[i].next()
IterNext(i) ==
    /\ i \in 1..Len(rules)
    /\ \E res \in {DateRuleNext(rules[i])} :
        /\ IF IsSome(res.item)
           THEN rules[i].current_count < MaxCursor
           ELSE nones[i] < MaxNones
        /\ rules' = [rules EXCEPT ![i] = res.self]
        /\ ret' = [ret EXCEPT ![i] = res.item]
        /\ emitted' = [emitted EXCEPT
               ![i] = IF IsSome(res.item) THEN Append(@, res.item.val) ELSE @]
        /\ nones' = [nones EXCEPT ![i] = IF IsSome(res.item) THEN @ ELSE @ + 1]
        /\ UNCHANGED <<made, outcome, call>>

Next ==
    \/ \E i \in 1..Len(rules), number \in 0..MaxCount : WithCount(i, number)
    \/ \E i \in 1..Len(rules), end \in Ends : WithEnd(i, end)
    \/ \E i \in 1..Len(rules), day \in RollingDays : WithRollingDay(i, day)
    \/ \E i \in 1..Len(rules) : IterNext(i)

Spec == Init /\ [][Next]_vars

ChainNext ==
    \/ \E number \in 0..MaxCount : ChainWithCount(number)
    \/ \E end \in Ends : ChainWithEnd(end)
    \/ \E day \in RollingDays : ChainWithRollingDay(day)
    \/ IterNext(1)

ChainSpec == Init /\ [][ChainNext]_vars

\* PairSpec: the caller configures a rule with the builders (rolling day, then
\* count, then end), keeps it, derives its with_rolling_day variant before
\* either is iterated, and iterates the two side by side.
Fresh == Len(rules) = 1 /\ ret[1] = NotCalled

PairNext ==
    \/ Fresh /\ made[1].op = "new"
             /\ \E day \in RollingDays : ChainWithRollingDay(day)
    \/ Fresh /\ made[1].op \in {"new", "with_rolling_day"}
             /\ \E number \in 0..MaxCount : ChainWithCount(number)
    \/ Fresh /\ made[1].op \in {"new", "with_rolling_day", "with_count"}
             /\ \E end \in Ends : ChainWithEnd(end)
    \/ Fresh /\ \E day \in RollingDays : WithRollingDay(1, day)
    \/ \E i \in 1..Len(rules) : IterNext(i)

PairSpec == Init /\ [][PairNext]_vars

\* the caller of a derived rule iterates it: it keeps calling its next()
FairSpec == Spec /\ WF_vars(IterNext(2))

(***************************************************************************)
(* ShiftSpec: the free functions and the date arithmetic, each applied to  *)
(* arguments drawn from bounded sets; call records the last application.   *)
(***************************************************************************)
Years == {1900, 2000, 2020, 2021}

Dates ==
    {MkDate(y, m, d) : <<y, m, d>> \in
        {t \in Years \X (1..12) \X (1..31) : ValidDate(t[1], t[2], t[3])}}

EdgeDates == {d \in Dates : d.day \in {1, 15, 28, 29, 30, 31}}

\* months and durations (whole days, and a day and a half either way) of the
\* RelativeDurations added to dates
RelMonths == {-25, -12, -1, 0, 1, 11, 24}

RelSecs ==
    {0, SecsPerDay, -SecsPerDay, 36 * 60 * 60, -(36 * 60 * 60), 30 * SecsPerDay}

\* the arguments of one application: a date, a month count and a duration
ShiftInit ==
    /\ rules = <<>>
    /\ emitted = <<>>
    /\ ret = <<>>
    /\ nones = <<>>
    /\ made = <<>>
    /\ outcome = [op |-> "none", arg |-> 0, ok |-> TRUE]
    /\ \E date \in Dates, months \in (-MaxShift)..MaxShift, secs \in RelSecs :
           /\ secs # 0 => date \in EdgeDates /\ months \in RelMonths
           /\ call = [fn |-> "none", date |-> date, months |-> months,
                      dur |-> secs, out |-> None]

Called(fn, out) ==
    /\ call.fn = "none"
    /\ call' = [call EXCEPT !.fn = fn, !.out = out]
    /\ UNCHANGED <<rules, emitted, ret, nones, made, outcome>>

CallShiftMonths ==
    /\ call.dur = 0
    /\ Called("shift_months", shift_months_opt(call.date, call.months))

CallAdd ==
    /\ call.date \in EdgeDates /\ call.months \in RelMonths
    /\ Called("add", Some(DateAddRel(call.date,
                                     RelativeDuration(call.months, call.dur))))

CallSub ==
    /\ call.date \in EdgeDates /\ call.months \in RelMonths
    /\ Called("sub", Some(DateSubRel(call.date,
                                     RelativeDuration(call.months, call.dur))))

ShiftNext == CallShiftMonths \/ CallAdd \/ CallSub

ShiftSpec == ShiftInit /\ [][ShiftNext]_vars

(***************************************************************************)
(* Two month shifts in a row against one shift by the sum, as calls of     *)
(* shift_months and as additions of RelativeDurations of months.           *)
(***************************************************************************)
TwiceMonths == {-13, -12, -2, -1, 0, 1, 2, 11, 12, 13}

\* RelativeDuration::months
Months(n) == RelativeDuration(n, 0)

\* shift_months on the result of an earlier call, which may have panicked
ShiftIfDate(date, n) == IF IsPanic(date) THEN Panic ELSE shift_months(date, n)

\* date + rhs on the result of an earlier addition
AddRelIfDate(date, rhs) == IF IsPanic(date) THEN Panic ELSE DateAddRel(date, rhs)

TwiceInit ==
    /\ rules = <<>>
    /\ emitted = <<>>
    /\ ret = <<>>
    /\ nones = <<>>
    /\ made = <<>>
    /\ outcome = [op |-> "none", arg |-> 0, ok |-> TRUE]
    /\ \E date \in EdgeDates, a \in TwiceMonths, b \in TwiceMonths :
           call = [fn |-> "none", date |-> date, months |-> a, again |-> b,
                   out |-> None, sum |-> None]

Shifted(from, fn, out, sum) ==
    /\ call.fn = from
    /\ call' = [call EXCEPT !.fn = fn, !.out = out, !.sum = sum]
    /\ UNCHANGED <<rules, emitted, ret, nones, made, outcome>>

\* shift_months(d, a)
CallShiftOnce == Shifted("none", "once", shift_months(call.date, call.months), None)

\* shift_months(shift_months(d, a), b)
CallShiftAgain == Shifted("once", "twice", ShiftIfDate(call.out, call.again), None)

\* shift_months(d, a + b)
CallShiftSum ==
    Shifted("twice", "sum", call.out,
            shift_months(call.date, call.months + call.again))

\* (d + months(a)) + months(b) and d + (months(a) + months(b))
CallAddTwice ==
    Shifted("none", "add",
            AddRelIfDate(DateAddRel(call.date, Months(call.months)),
                         Months(call.again)),
            DateAddRel(call.date, RelAdd(Months(call.months), Months(call.again))))

TwiceNext == CallShiftOnce \/ CallShiftAgain \/ CallShiftSum \/ CallAddTwice

TwiceSpec == TwiceInit /\ [][TwiceNext]_vars

(***************************************************************************)
(* Month shifts of date-times in a zone, as the tests of delta.rs make     *)
(* them: shift_months_opt and shift_months on the same arguments.          *)
(***************************************************************************)
ZonedYears == {2020, 2023}

ZonedMonths == {-13, -12, -11, -2, -1, 0, 1, 2, 11, 12, 13}

\* the date-times of the zone: every local date of the years at an hour the
\* transitions touch and at one they do not, those in the gap left out
ZonedDateTimes ==
    {dt \in {MkDateTime(d.year, d.month, d.day, h) :
                d \in {MkDate(t[1], t[2], t[3]) :
                          t \in {u \in ZonedYears \X (1..12) \X (1..31) :
                                    ValidDate(u[1], u[2], u[3])}},
                h \in {TransitionHour, 12}} : ~InGap(dt)}

ZonedInit ==
    /\ rules = <<>>
    /\ emitted = <<>>
    /\ ret = <<>>
    /\ nones = <<>>
    /\ made = <<>>
    /\ outcome = [op |-> "none", arg |-> 0, ok |-> TRUE]
    /\ \E dt \in ZonedDateTimes, n \in ZonedMonths :
           call = [fn |-> "none", date |-> dt, months |-> n, out |-> None]

ZonedCalled(fn, out) ==
    /\ call.fn = "none"
    /\ call' = [call EXCEPT !.fn = fn, !.out = out]
    /\ UNCHANGED <<rules, emitted, ret, nones, made, outcome>>

CallZonedShiftOpt ==
    ZonedCalled("shift_months_opt", shift_months_opt(call.date, call.months))

CallZonedShift ==
    ZonedCalled("shift_months", shift_months(call.date, call.months))

ZonedNext == CallZonedShiftOpt \/ CallZonedShift

ZonedSpec == ZonedInit /\ [][ZonedNext]_vars

(***************************************************************************)
(* FieldSpec: with_day, with_month, with_year and their fallible variants, *)
(* shift_years, and the shift of lib.rs, each applied to a naive date and  *)
(* one argument.                                                           *)
(***************************************************************************)
\* days, months and years given as the field to set, the values just outside
\* 1..=31 and 1..=12 among them
DayArgs == 0..33 \cup {42}

MonthArgs == 0..14

YearArgs == {1900, 1999, 2000, 2019, 2020, 2021, 2024, 2100}

FieldInit ==
    /\ rules = <<>>
    /\ emitted = <<>>
    /\ ret = <<>>
    /\ nones = <<>>
    /\ made = <<>>
    /\ outcome = [op |-> "none", arg |-> 0, ok |-> TRUE]
    /\ \E date \in EdgeDates,
          arg \in ((-MaxShift)..MaxShift) \cup DayArgs \cup YearArgs :
           call = [fn |-> "none", date |-> date, arg |-> arg, out |-> None]

CallWithDay ==
    /\ call.arg \in DayArgs
    /\ Called("with_day", with_day(call.date, call.arg))

CallWithMonth ==
    /\ call.arg \in MonthArgs
    /\ Called("with_month", with_month(call.date, call.arg))

CallWithMonthOpt ==
    /\ call.arg \in MonthArgs
    /\ Called("with_month_opt", with_month_opt(call.date, call.arg))

CallWithYear ==
    /\ call.arg \in YearArgs
    /\ Called("with_year", with_year(call.date, call.arg))

CallWithYearOpt ==
    /\ call.arg \in YearArgs
    /\ Called("with_year_opt", with_year_opt(call.date, call.arg))

\* shift_years by the difference to the year given
CallShiftYears ==
    /\ call.arg \in YearArgs
    /\ Called("shift_years", shift_years(call.date, call.arg - call.date.year))

\* shift_months of lib.rs
CallShift ==
    /\ call.arg \in (-MaxShift)..MaxShift
    /\ Called("shift", shift(call.date, 0, call.arg))

FieldNext ==
    \/ CallWithDay
    \/ CallWithMonth
    \/ CallWithMonthOpt
    \/ CallWithYear
    \/ CallWithYearOpt
    \/ CallShiftYears
    \/ CallShift

FieldSpec == FieldInit /\ [][FieldNext]_vars

(***************************************************************************)
(* NormSpec: is_leap_year and normalise_day as pure functions, applied to  *)
(* every year of the reference list, a few years outside it, every month   *)
(* and every day of 1..=31.                                                *)
(***************************************************************************)
\* the years of test_leap_year_cases
TestedYears == 1900..2020

\* the leap years that test lists
LeapYears1900To2020 ==
    {1904, 1908, 1912, 1916, 1920, 1924, 1928, 1932, 1936, 1940, 1944,
     1948, 1952, 1956, 1960, 1964, 1968, 1972, 1976, 1980, 1984, 1988,
     1992, 1996, 2000, 2004, 2008, 2012, 2016, 2020}

\* years before the common era and century years after the list
OtherYears == {-400, -100, -5, -4, -1, 0, 1, 2100, 2400}

NormInit ==
    /\ rules = <<>>
    /\ emitted = <<>>
    /\ ret = <<>>
    /\ nones = <<>>
    /\ made = <<>>
    /\ outcome = [op |-> "none", arg |-> 0, ok |-> TRUE]
    /\ \E year \in TestedYears \cup OtherYears, month \in 1..12, day \in 1..31 :
           call = [fn |-> "none", year |-> year, month |-> month,
                   day |-> day, out |-> 0]

CallNormaliseDay ==
    Called("normalise_day", normalise_day(call.year, call.month, call.day))

\* the year alone is the argument: taken once, from the first of January
CallIsLeapYear ==
    /\ call.month = 1 /\ call.day = 1
    /\ Called("is_leap_year", is_leap_year(call.year))

NormNext == CallNormaliseDay \/ CallIsLeapYear

NormSpec == NormInit /\ [][NormNext]_vars

(***************************************************************************)
(* relative_duration/parse.rs works on i64 values and on text.  TLC's      *)
(* integers are 32 bits wide, so an i64 is kept at full width as a sign    *)
(* and the decimal digits of its magnitude, most significant first and     *)
(* without leading zeros (zero has no digits): [neg, mag].  An operand is   *)
(* computed once and named, as a Rust value is: The({e(v) : v \in {x}}).    *)
(***************************************************************************)
RECURSIVE StripZeros(_)
StripZeros(mag) ==
    IF mag # <<>> /\ Head(mag) = 0 THEN StripZeros(Tail(mag)) ELSE mag

Wide(neg, mag) ==
    The({[neg |-> neg /\ m # <<>>, mag |-> m] : m \in {StripZeros(mag)}})

WideZero == Wide(FALSE, <<>>)

\* the digit of weight 10^(k-1)
DigitAt(mag, k) == IF k <= Len(mag) THEN mag[Len(mag) - k + 1] ELSE 0

MagLess(a, b) ==
    \/ Len(a) < Len(b)
    \/ /\ Len(a) = Len(b)
       /\ \E i \in 1..Len(a) : a[i] < b[i] /\ \A j \in 1..(i - 1) : a[j] = b[j]

RECURSIVE NatDigits(_)
NatDigits(n) == IF n = 0 THEN <<>> ELSE Append(NatDigits(n \div 10), n % 10)

\* the digits of the magnitude of n <= 0, taken without negating n
RECURSIVE NegDigits(_)
NegDigits(n) ==
    IF n = 0 THEN <<>>
    ELSE Append(NegDigits((n + ((10 - (n % 10)) % 10)) \div 10),
                (10 - (n % 10)) % 10)

RECURSIVE MagAddFrom(_, _, _, _)
MagAddFrom(a, b, k, carry) ==
    IF k > Len(a) /\ k > Len(b)
    THEN NatDigits(carry)
    ELSE The({Append(MagAddFrom(a, b, k + 1, t \div 10), t % 10) :
                 t \in {DigitAt(a, k) + DigitAt(b, k) + carry}})

MagAdd(a, b) == MagAddFrom(a, b, 1, 0)

\* a - b for a >= b
RECURSIVE MagSubFrom(_, _, _, _)
MagSubFrom(a, b, k, borrow) ==
    IF k > Len(a)
    THEN <<>>
    ELSE The({Append(MagSubFrom(a, b, k + 1, IF t < 0 THEN 1 ELSE 0), t % 10) :
                 t \in {DigitAt(a, k) - DigitAt(b, k) - borrow}})

MagSub(a, b) == StripZeros(MagSubFrom(a, b, 1, 0))

RECURSIVE MagMulFrom(_, _, _, _)
MagMulFrom(a, c, k, carry) ==
    IF k > Len(a)
    THEN NatDigits(carry)
    ELSE The({Append(MagMulFrom(a, c, k + 1, t \div 10), t % 10) :
                 t \in {DigitAt(a, k) * c + carry}})

MagMul(a, c) == StripZeros(MagMulFrom(a, c, 1, 0))

RECURSIVE MagDivFrom(_, _, _, _)
MagDivFrom(a, c, i, rem) ==
    IF i > Len(a)
    THEN <<>>
    ELSE The({<<t \div c>> \o MagDivFrom(a, c, i + 1, t % c) :
                 t \in {rem * 10 + a[i]}})

MagDiv(a, c) == StripZeros(MagDivFrom(a, c, 1, 0))

RECURSIVE MagModFrom(_, _, _, _)
MagModFrom(a, c, i, rem) ==
    IF i > Len(a) THEN rem
    ELSE The({MagModFrom(a, c, i + 1, t) : t \in {(rem * 10 + a[i]) % c}})

MagMod(a, c) == MagModFrom(a, c, 1, 0)

\* an i32 (a TLC integer) as i64
WideOfInt(n) ==
    The({IF v >= 0 THEN Wide(FALSE, NatDigits(v)) ELSE Wide(TRUE, NegDigits(v)) :
            v \in {n}})

\* a value in the i32 range as a TLC integer
RECURSIVE IntOfDigits(_, _, _)
IntOfDigits(mag, i, acc) ==
    IF i > Len(mag) THEN acc ELSE IntOfDigits(mag, i + 1, acc * 10 + mag[i])

RECURSIVE IntOfNegDigits(_, _, _)
IntOfNegDigits(mag, i, acc) ==
    IF i > Len(mag) THEN acc ELSE IntOfNegDigits(mag, i + 1, acc * 10 - mag[i])

IntOfWide(x) ==
    The({IF v.neg THEN IntOfNegDigits(v.mag, 1, 0) ELSE IntOfDigits(v.mag, 1, 0) :
            v \in {x}})

WideNeg(x) == The({Wide(~v.neg, v.mag) : v \in {x}})

\* the operands are computed once, as v[1] and v[2]
WideAdd(x, y) ==
    The({IF v[1].neg = v[2].neg THEN Wide(v[1].neg, MagAdd(v[1].mag, v[2].mag))
         ELSE IF MagLess(v[1].mag, v[2].mag)
         THEN Wide(v[2].neg, MagSub(v[2].mag, v[1].mag))
         ELSE Wide(v[1].neg, MagSub(v[1].mag, v[2].mag)) : v \in {<<x, y>>}})

\* x * c, x / c and x % c for a constant c > 0; / and % truncate toward zero
WideMul(x, c) == The({Wide(v.neg, MagMul(v.mag, c)) : v \in {x}})

WideDiv(x, c) == The({Wide(v.neg, MagDiv(v.mag, c)) : v \in {x}})

WideRem(x, c) ==
    The({IF v.neg THEN -MagMod(v.mag, c) ELSE MagMod(v.mag, c) : v \in {x}})

WideLess(x, y) ==
    The({IF v[1].neg # v[2].neg THEN v[1].neg
         ELSE IF v[1].neg THEN MagLess(v[2].mag, v[1].mag)
         ELSE MagLess(v[1].mag, v[2].mag) : v \in {<<x, y>>}})

WideLe(x, y) == The({v[1] = v[2] \/ WideLess(v[1], v[2]) : v \in {<<x, y>>}})

I64Max == Wide(FALSE, <<9, 2, 2, 3, 3, 7, 2, 0, 3, 6, 8, 5, 4, 7, 7, 5, 8, 0, 7>>)

I64Min == Wide(TRUE, <<9, 2, 2, 3, 3, 7, 2, 0, 3, 6, 8, 5, 4, 7, 7, 5, 8, 0, 8>>)

I32Max == Wide(FALSE, <<2, 1, 4, 7, 4, 8, 3, 6, 4, 7>>)

I32Min == Wide(TRUE, <<2, 1, 4, 7, 4, 8, 3, 6, 4, 8>>)

InI64(x) == The({WideLe(I64Min, v) /\ WideLe(v, I64Max) : v \in {x}})

InI32(x) == The({WideLe(I32Min, v) /\ WideLe(v, I32Max) : v \in {x}})

\* i64::checked_mul and checked_add, and the same for i32
checked_mul(x, c) ==
    The({IF InI64(v) THEN Some(v) ELSE None : v \in {WideMul(x, c)}})

checked_add(x, y) ==
    The({IF InI64(v) THEN Some(v) ELSE None : v \in {WideAdd(x, y)}})

checked_mul_i32(x, c) ==
    The({IF InI32(v) THEN Some(v) ELSE None : v \in {WideMul(x, c)}})

checked_add_i32(x, y) ==
    The({IF InI32(v) THEN Some(v) ELSE None : v \in {WideAdd(x, y)}})

\* the `?` operator and Option::and_then on a checked operation
ThenMul(o, c) ==
    The({IF IsNone(v) THEN None ELSE checked_mul(v.val, c) : v \in {o}})

ThenAdd(o, y) ==
    The({IF IsNone(v) THEN None ELSE checked_add(v.val, y) : v \in {o}})

(***************************************************************************)
(* Text is a sequence of characters (one-character strings).               *)
(***************************************************************************)
DigitChars == <<"0", "1", "2", "3", "4", "5", "6", "7", "8", "9">>

IsDigit(c) == \E d \in 1..10 : DigitChars[d] = c

DigitOf(c) == (CHOOSE d \in 1..10 : DigitChars[d] = c) - 1

DigitsOf(s) == [i \in 1..Len(s) |-> DigitOf(s[i])]

ShowDigits(mag) == [i \in 1..Len(mag) |-> DigitChars[mag[i] + 1]]

\* Display of an integer: "{}"
ShowWide(x) ==
    The({IF v.mag = <<>> THEN <<"0">>
         ELSE (IF v.neg THEN <<"-">> ELSE <<>>) \o ShowDigits(v.mag) : v \in {x}})

\* Result values
Ok(v) == [tag |-> "Ok", val |-> v]

Err == [tag |-> "Err"]

IsOk(r) == r.tag = "Ok"

\* the text t before and after its character at i
SplitAt(t, i) == Some(<<SubSeq(t, 1, i - 1), SubSeq(t, i + 1, Len(t))>>)

\* str::split_once: the text before and after the first c
split_once(s, c) ==
    The({IF \E i \in 1..Len(t) : t[i] = c
         THEN SplitAt(t, CHOOSE k \in 1..Len(t) :
                             t[k] = c /\ \A j \in 1..(k - 1) : t[j] # c)
         ELSE None : t \in {s}})

\* the range of the integer type T of a generic call, "i32" or "i64"
InType(T, x) == IF T = "i32" THEN InI32(x) ELSE InI64(x)

\* the digits after the sign, of value `value` when the sign is '-' or not
ParseDigits(negative, digits, T) ==
    IF digits = <<>> \/ \E i \in 1..Len(digits) : ~IsDigit(digits[i])
    THEN Err
    ELSE The({IF InType(T, value) THEN Ok(value) ELSE Err :
                 value \in {Wide(negative, DigitsOf(digits))}})

\* str::parse::<T> for a signed integer type: an optional sign, then at least
\* one digit and digits only, the value within the range of T
ParseSigned(s, T) ==
    The({IF t # <<>> /\ t[1] \in {"+", "-"}
         THEN The({ParseDigits(t[1] = "-", digits, T) : digits \in {Tail(t)}})
         ELSE ParseDigits(FALSE, t, T) : t \in {s}})

\* str::parse::<u32>: an optional '+', then digits; no '-'
InU32(x) == ~x.neg /\ WideLe(x, Wide(FALSE, <<4, 2, 9, 4, 9, 6, 7, 2, 9, 5>>))

ParseU32Digits(digits) ==
    IF digits = <<>> \/ \E i \in 1..Len(digits) : ~IsDigit(digits[i])
    THEN Err
    ELSE The({IF InU32(value) THEN Ok(value) ELSE Err :
                 value \in {Wide(FALSE, DigitsOf(digits))}})

ParseU32(s) ==
    The({IF t # <<>> /\ t[1] = "+"
         THEN The({ParseU32Digits(digits) : digits \in {Tail(t)}})
         ELSE ParseU32Digits(t) : t \in {s}})

(***************************************************************************)
(* chrono::Duration as chrono keeps it: whole seconds (i64) and            *)
(* nanoseconds in 0..10^9, the value being secs + nanos / 10^9.            *)
(***************************************************************************)
NanosPerSec == 1000000000

Duration(secs, nanos) == [secs |-> secs, nanos |-> nanos]

\* i64::MAX / 1000 and -i64::MAX / 1000 - 1: the seconds of the largest and
\* the smallest Duration
MaxSecs == WideDiv(I64Max, 1000)

MinSecs == WideAdd(WideDiv(WideNeg(I64Max), 1000), WideOfInt(-1))

\* Duration::new: None outside the range of Duration
DurationNew(secs, nanos) ==
    The({IF \/ WideLess(v[1], MinSecs) \/ WideLess(MaxSecs, v[1])
            \/ v[2] >= NanosPerSec
            \/ v[1] = MaxSecs /\ v[2] > 807000000
            \/ v[1] = MinSecs /\ v[2] < 193000000
         THEN None
         ELSE Some(Duration(v[1], v[2])) : v \in {<<secs, nanos>>}})

\* Duration::num_seconds and Duration::subsec_nanos: both toward zero
num_seconds(d) ==
    The({IF v.secs.neg /\ v.nanos > 0 THEN WideAdd(v.secs, WideOfInt(1))
         ELSE v.secs : v \in {d}})

subsec_nanos(d) ==
    The({IF v.secs.neg /\ v.nanos > 0 THEN v.nanos - NanosPerSec ELSE v.nanos :
            v \in {d}})

(***************************************************************************)
(* relative_duration/parse.rs                                              *)
(***************************************************************************)
dhmsn_to_duration(days, hours, minutes, seconds, nanos) ==
    The({IF IsNone(secs) THEN None ELSE DurationNew(secs.val, nanos) :
            secs \in {ThenAdd(ThenMul(ThenAdd(ThenMul(ThenAdd(
                          checked_mul(days, 24), hours), 60), minutes), 60),
                          seconds)}})

\* get_terminated once the input is split at the terminator
Terminated(int_string, remainder, T) ==
    The({IF IsOk(int) THEN Ok(<<remainder, int.val>>) ELSE Err :
            int \in {ParseSigned(int_string, T)}})

\* Ok(<<remainder, value>>) or Err
get_terminated(input, terminator, T) ==
    The({IF IsSome(split) THEN Terminated(split.val[1], split.val[2], T)
         ELSE Ok(<<input, WideZero>>) : split \in {split_once(input, terminator)}})

\* the fraction right-padded with zeros and cut to 9 characters
PadNine(fraction_string) ==
    [i \in 1..9 |-> IF i <= Len(fraction_string) THEN fraction_string[i] ELSE "0"]

\* int - 1 on i64: with overflow checks (the default of a debug build) the
\* subtraction panics at i64::MIN, without them it wraps
SubOne(int, overflow_checks) ==
    IF int = I64Min
    THEN (IF overflow_checks THEN Panic ELSE I64Max)
    ELSE WideAdd(int, WideOfInt(-1))

\* the second case of get_terminated_decimal with int - 1 computed
NegativeDecimal(remainder, less, fraction) ==
    IF IsPanic(less) THEN Panic
    ELSE Ok(<<remainder, less, NanosPerSec - fraction>>)

\* DecimalWith without its case for a leading '-'
DecimalWithoutBorrow(decimal_string, remainder, int, fraction, overflow_checks) ==
    Ok(<<remainder, int, fraction>>)

\* get_terminated_decimal from the parsed fraction on
DecimalWith(decimal_string, remainder, int, fraction, overflow_checks) ==
    IF decimal_string # <<>> /\ decimal_string[1] = "-" /\ fraction # 0
    THEN The({NegativeDecimal(remainder, less, fraction) :
                 less \in {SubOne(int, overflow_checks)}})
    ELSE Ok(<<remainder, int, fraction>>)

\* decimal_string.split_once('.'), or else split_once(','), or else the whole
\* string with no fraction
DecimalParts(decimal_string) ==
    The({IF IsSome(dot) THEN dot.val
         ELSE The({IF IsSome(comma) THEN comma.val
                   ELSE <<decimal_string, <<>> >> :
                      comma \in {split_once(decimal_string, ",")}}) :
            dot \in {split_once(decimal_string, ".")}})

\* the fraction as a number of nanoseconds: Ok(fraction) or Err
FractionOf(fraction_string) ==
    IF fraction_string = <<>> THEN Ok(0)
    ELSE The({IF IsOk(fraction) THEN Ok(IntOfWide(fraction.val)) ELSE Err :
                 fraction \in {ParseU32(PadNine(fraction_string))}})

\* get_terminated_decimal once the input is split at the terminator and the
\* decimal at its separator
Decimal(decimal_string, remainder, parts, overflow_checks) ==
    The({IF ~IsOk(v[1]) \/ ~IsOk(v[2]) THEN Err
         ELSE DecimalWith(decimal_string, remainder, v[1].val, v[2].val,
                          overflow_checks) :
            v \in {<<ParseSigned(parts[1], "i64"), FractionOf(parts[2])>>}})

\* Ok(<<remainder, seconds, nanoseconds>>), Err or Panic
get_terminated_decimal(input, terminator, overflow_checks) ==
    The({IF IsNone(split) THEN Ok(<<input, WideZero, 0>>)
         ELSE The({Decimal(split.val[1], split.val[2], parts, overflow_checks) :
                      parts \in {DecimalParts(split.val[1])}}) :
            split \in {split_once(input, terminator)}})

\* the `?` operator on a Result between two fields: the Err (or the panic)
\* of the field before ends the function
ThenTerminated(r, terminator, T) ==
    The({IF ~IsOk(v) THEN v
         ELSE The({IF ~IsOk(f) THEN f
                   ELSE Ok(<<f.val[1], Append(v.val[2], f.val[2])>>) :
                      f \in {get_terminated(v.val[1], terminator, T)}}) :
            v \in {r}})

\* parse_datespec once its four fields are read: <<remainder, <<y, m, w, d>> >>
DateOf(remainder, fields) ==
    IF remainder # <<>> THEN Err
    ELSE The({IF IsNone(days) THEN Err
              ELSE Ok(<<fields[1], fields[2], days.val>>) :
                 days \in {ThenAdd(checked_mul(fields[3], 7), fields[4])}})

\* Ok(<<years, months, days>>) or Err
parse_datespec(datespec) ==
    The({IF ~IsOk(r) THEN Err ELSE DateOf(r.val[1], r.val[2]) :
            r \in {ThenTerminated(ThenTerminated(ThenTerminated(ThenTerminated(
                       Ok(<<datespec, <<>> >>), "Y", "i32"), "M", "i32"),
                       "W", "i64"), "D", "i64")}})

\* parse_timespec once hours and minutes are read
TimeOf(fields, s) ==
    IF IsPanic(s) THEN Panic
    ELSE IF ~IsOk(s) THEN Err
    ELSE IF s.val[1] # <<>> THEN Err
    ELSE Ok(<<fields[1], fields[2], s.val[2], s.val[3]>>)

\* Ok(<<hours, mins, secs, nanos>>), Err or Panic
parse_timespec(timespec, overflow_checks) ==
    The({IF ~IsOk(r) THEN Err
         ELSE The({TimeOf(r.val[2], s) :
                      s \in {get_terminated_decimal(r.val[1], "S",
                                                    overflow_checks)}}) :
            r \in {ThenTerminated(ThenTerminated(
                       Ok(<<timespec, <<>> >>), "H", "i64"), "M", "i64")}})

\* years.checked_mul(12).and_then(|x| x.checked_add(months)), on i32
TotalMonths(years, months) ==
    The({IF IsNone(v) THEN None ELSE checked_add_i32(v.val, months) :
            v \in {checked_mul_i32(years, 12)}})

\* parse_from_iso8601 once the date part and the time part are parsed
Parsed(date, time) ==
    IF ~IsOk(date) THEN Err
    ELSE IF IsPanic(time) THEN Panic
    ELSE IF ~IsOk(time) THEN Err
    ELSE The({IF IsNone(v[1]) THEN Err
              ELSE IF IsNone(v[2]) THEN Err
              ELSE Ok(RelativeDuration(IntOfWide(v[1].val), v[2].val)) :
                 v \in {<<TotalMonths(date.val[1], date.val[2]),
                          dhmsn_to_duration(date.val[3], time.val[1], time.val[2],
                                            time.val[3], time.val[4])>>}})

\* parse_timespec is reached when parse_datespec returned Ok
ParseSpecs(datespec, timespec, overflow_checks) ==
    The({IF ~IsOk(date) THEN Err
         ELSE The({Parsed(date, time) :
                      time \in {parse_timespec(timespec, overflow_checks)}}) :
            date \in {parse_datespec(datespec)}})

\* RelativeDuration::parse_from_iso8601: Ok(RelativeDuration), Err or Panic
parse_from_iso8601(input, overflow_checks) ==
    IF input = <<>> \/ input[1] # "P" THEN Err
    ELSE The({IF IsSome(split)
              THEN ParseSpecs(split.val[1], split.val[2], overflow_checks)
              ELSE ParseSpecs(Tail(input), <<>>, overflow_checks) :
                 split \in {split_once(Tail(input), "T")}})

\* write!(out, "{}{}", value, designator) for the values that are not 0
Field(x, designator) ==
    The({IF v = WideZero THEN <<>> ELSE ShowWide(v) \o <<designator>> : v \in {x}})

\* format!("{:0>9}", nanos) with the zeros at its end trimmed
RECURSIVE TrimZeros(_)
TrimZeros(s) ==
    IF s # <<>> /\ s[Len(s)] = "0" THEN TrimZeros(SubSeq(s, 1, Len(s) - 1)) ELSE s

PadLeftNine(s) ==
    The({IF Len(t) >= 9 THEN t ELSE [i \in 1..(9 - Len(t)) |-> "0"] \o t :
            t \in {s}})

\* Fraction with the zeros at its end kept
FractionUntrimmed(nanos) == PadLeftNine(ShowWide(WideOfInt(nanos)))

Fraction(nanos) == TrimZeros(PadLeftNine(ShowWide(WideOfInt(nanos))))

\* SecondsNanos with push_minus never set
SecondsNanosNoMinus(remaining_seconds, nanos) ==
    IF remaining_seconds > 0 /\ nanos < 0
    THEN <<remaining_seconds - 1, nanos + NanosPerSec, FALSE>>
    ELSE IF remaining_seconds < 0 /\ nanos > 0
    THEN <<remaining_seconds + 1, -nanos + NanosPerSec, FALSE>>
    ELSE IF remaining_seconds <= 0 /\ nanos < 0
    THEN <<remaining_seconds, -nanos, FALSE>>
    ELSE <<remaining_seconds, nanos, FALSE>>

\* the seconds, nanoseconds and push_minus of format_to_iso8601
SecondsNanos(remaining_seconds, nanos) ==
    IF remaining_seconds > 0 /\ nanos < 0
    THEN <<remaining_seconds - 1, nanos + NanosPerSec, FALSE>>
    ELSE IF remaining_seconds < 0 /\ nanos > 0
    THEN <<remaining_seconds + 1, -nanos + NanosPerSec, FALSE>>
    ELSE IF remaining_seconds <= 0 /\ nanos < 0
    THEN <<remaining_seconds, -nanos, remaining_seconds = 0>>
    ELSE <<remaining_seconds, nanos, FALSE>>

\* the text of the seconds field
SecondsField(seconds, nanos) ==
    IF seconds # 0 \/ nanos # 0
    THEN ShowWide(WideOfInt(seconds))
             \o (IF nanos # 0 THEN <<".">> \o Fraction(nanos) ELSE <<>>)
             \o <<"S">>
    ELSE <<>>

\* the text from the fields: years, months and days (i64), hours and minutes,
\* and <<seconds, nanos, push_minus>>
Written(years, months, days, hours, minutes, snp) ==
    <<"P">>
      \o Field(years, "Y") \o Field(months, "M") \o Field(days, "D")
      \o (IF hours # 0 \/ minutes # 0 \/ snp[1] # 0 \/ snp[2] # 0
          THEN <<"T">> ELSE <<>>)
      \o Field(WideOfInt(hours), "H") \o Field(WideOfInt(minutes), "M")
      \o (IF snp[3] THEN <<"-">> ELSE <<>>)
      \o SecondsField(snp[1], snp[2])

\* the fields of the time of day from the seconds within the day
WrittenTime(years, months, days, remaining_seconds, nanos) ==
    The({Written(years, months, days, TruncDiv(remaining_seconds, 60 * 60),
                 TruncDiv(TruncRem(remaining_seconds, 60 * 60), 60), snp) :
            snp \in {SecondsNanos(
                        TruncRem(TruncRem(remaining_seconds, 60 * 60), 60),
                        nanos)}})

\* RelativeDuration::format_to_iso8601
format_to_iso8601(self) ==
    The({WrittenTime(WideDiv(v[1], 12), WideOfInt(WideRem(v[1], 12)),
                     WideDiv(v[2], 24 * 60 * 60), WideRem(v[2], 24 * 60 * 60),
                     subsec_nanos(self.duration)) :
            v \in {<<WideOfInt(self.months), num_seconds(self.duration)>>}})

(***************************************************************************)
(* The text codec driven as its tests drive it: a text is parsed and the   *)
(* value formatted back, a value is formatted and the text parsed back.    *)
(* The overflow checks of the build are chosen at each call of the parser. *)
(***************************************************************************)
\* the decimal text of a small integer
Str(n) == ShowWide(WideOfInt(n))

Nines == <<"9", "9", "9", "9", "9", "9", "9", "9", "9">>

TinyFraction == <<"0", "0", "0", "0", "0", "0", "0", "0", "1">>

\* the texts of proptest_parse_and_back
CanonFractions == {<<"1">>, <<"2", "5">>, TinyFraction, Nines}

CanonSeconds ==
    {Str(s) : s \in {1, 59}}
        \cup {Str(s) \o <<".">> \o f : s \in {0, 59}, f \in CanonFractions}

CanonTimes ==
    {<<>>} \cup {<<"T">> \o Str(h) \o <<"H">> \o Str(m) \o <<"M">> \o s \o <<"S">> :
                    h \in {1, 23}, m \in {1, 59}, s \in CanonSeconds}

CanonicalTexts ==
    {<<"P">> \o y \o m \o d \o t :
        y \in {<<>>} \cup {Str(n) \o <<"Y">> : n \in {1, 99999999}},
        m \in {<<>>} \cup {Str(n) \o <<"M">> : n \in {1, 11}},
        d \in {<<>>} \cup {Str(n) \o <<"D">> : n \in {1, 29}},
        t \in CanonTimes}

\* a seconds field with a leading '-': integer part -whole, the fraction
\* after the separator
NegWholes == {0, 1, 59, 60, 86400}

NegFractions == {<<"5">>, <<"1", "0">>, TinyFraction, Nines,
                 <<"1", "2", "3", "4", "5", "6", "7", "8", "9", "1">>}

Separators == {".", ","}

NegText(whole, sep, fraction) ==
    <<"P", "T", "-">> \o Str(whole) \o <<sep>> \o fraction \o <<"S">>

NegativeTexts ==
    {NegText(whole, sep, f) : whole \in NegWholes, sep \in Separators,
                              f \in NegFractions}

\* numeric fields at the ends of their ranges, empty fields, long fractions
I64MinText == ShowWide(I64Min)

I64MaxText == ShowWide(I64Max)

ExtremeTexts ==
    {<<"P", "T">> \o I64MinText \o <<".", "5", "S">>,
     <<"P", "T">> \o I64MinText \o <<".", "5", "S", "X">>,
     <<"P", "T", "1", "S">> \o I64MinText \o <<",", "5", "S">>,
     <<"P", "T">> \o I64MinText \o <<"S">>,
     <<"P", "T">> \o I64MinText \o <<".", "0", "S">>,
     <<"P", "T">> \o I64MaxText \o <<"S">>,
     <<"P", "T">> \o I64MaxText \o <<"8", "S">>,
     <<"P", "T">> \o I64MaxText \o <<"H">>,
     <<"P">> \o I64MaxText \o <<"W">>,
     <<"P">> \o I64MinText \o <<"D">>,
     <<"P">> \o ShowWide(I32Max) \o <<"Y">>,
     <<"P">> \o ShowWide(I32Min) \o <<"M">>,
     <<"P">> \o ShowWide(I32Max) \o <<"M">>,
     <<"P">> \o ShowWide(I32Max) \o <<"0", "M">>,
     <<"P", "1", "Y">> \o ShowWide(I32Max) \o <<"M">>,
     <<"P", "T", "-", "9", "2", "2", "3", "3", "7", "2", "0", "3", "6", "8",
       "5", "4", "7", "7", "6", ".", "5", "S">>,
     <<"P", "Y">>, <<"P", "T", "S">>, <<"P", "T", ".", "S">>,
     <<"P", "T", ".", "5", "S">>, <<"P", "T", "-", ".", "5", "S">>,
     <<"P", "T", "1", ".", "S">>, <<"P", "T", "-", "S">>,
     <<"P", "+", "1", "Y">>, <<"P", "-", "Y">>, <<"P", "T">>, <<"P", "1", "Y", "T">>,
     <<"P", "T", "1", ".", "+", "5", "S">>, <<"P", "T", "1", ".", "-", "5", "S">>,
     <<"P", "T", "1", ".", "5", ",", "5", "S">>,
     <<"P", "T", "0", ".">> \o TinyFraction \o <<"9", "S">>,
     <<"P", "T", "0", ".">> \o Nines \o Nines \o <<"S">>,
     <<"P", "T", "-", "0", ".", "0", "S">>,
     <<"P", "T", "T", "1", "S">>}

\* texts away from the grammar: no leading 'P', and numbered designators in
\* every order of two in the date part and in the time part
Designators == {"Y", "M", "W", "D", "H", "S", "X"}

UnprefixedTexts ==
    {<<>>, <<"1", "Y">>, <<"p", "1", "Y">>, <<" ", "P", "1", "Y">>,
     <<"T", "1", "S">>, <<"X", "P">>, <<"1">>}

OrderTexts ==
    {<<"P">> \o t \o <<"1", a, "2", b>> \o rest :
        t \in {<<>>, <<"T">>, <<"3", "D", "T">>}, a \in Designators,
        b \in Designators, rest \in {<<>>, <<"5">>}}
    \cup {<<"P", "1", "Y", "T", "1", a>> : a \in Designators}
    \cup {<<"P", "1", a, "T", "1", "S">> : a \in Designators}

\* texts written from their fields: each of years, months, weeks, days,
\* hours and minutes absent or a signed integer, the seconds absent or a
\* sign, a whole number and the digits of a fraction
FieldText(v, letter) ==
    IF IsNone(v) THEN <<>> ELSE ShowWide(v.val) \o <<letter>>

Seconds(minus, whole, frac) == [minus |-> minus, whole |-> whole, frac |-> frac]

SecondsText(s) ==
    IF IsNone(s) THEN <<>>
    ELSE (IF s.val.minus THEN <<"-">> ELSE <<>>) \o ShowWide(s.val.whole)
             \o (IF s.val.frac = <<>> THEN <<>> ELSE <<".">> \o s.val.frac)
             \o <<"S">>

TimeText(h, mi, s) ==
    IF IsNone(h) /\ IsNone(mi) /\ IsNone(s) THEN <<>>
    ELSE <<"T">> \o FieldText(h, "H") \o FieldText(mi, "M") \o SecondsText(s)

TextOf(f) ==
    <<"P">> \o FieldText(f[1], "Y") \o FieldText(f[2], "M")
        \o FieldText(f[3], "W") \o FieldText(f[4], "D")
        \o TimeText(f[5], f[6], f[7])

Number(n) == Some(WideOfInt(n))

\* the fields of "P1Y-10M-1W3DT3H-6M-1S" of test_parse_duration, each there
\* or not, and the seconds also with a fraction
SignedFields ==
    {None, Number(1)} \X {None, Number(-10)} \X {None, Number(-1)}
        \X {None, Number(3)} \X {None, Number(3)} \X {None, Number(-6)}
        \X {None, Some(Seconds(TRUE, WideOfInt(1), <<>>)),
            Some(Seconds(TRUE, WideOfInt(1), <<"5">>)),
            Some(Seconds(FALSE, WideOfInt(0), <<"2", "5">>))}

\* fields whose combination lies at the end of the i32 range, of the i64
\* range or of the range of Duration, on either side of it
I32MaxOver12 == WideDiv(I32Max, 12)

I64MaxOver7 == WideDiv(I64Max, 7)

I64MinOver60 == WideDiv(I64Min, 60)

WeeksOfMaxSecs == WideDiv(MaxSecs, 7 * 24 * 60 * 60)

DateOnly(y, mo, w, d) == <<y, mo, w, d, None, None, None>>

TimeOnly(h, mi, s) == <<None, None, None, None, h, mi, s>>

EdgeFields ==
    {DateOnly(Some(I32MaxOver12), Number(7), None, None),
     DateOnly(Some(I32MaxOver12), Number(8), None, None),
     DateOnly(Some(WideNeg(I32MaxOver12)), Number(-8), None, None),
     DateOnly(Some(WideNeg(I32MaxOver12)), Number(-9), None, None),
     DateOnly(Some(WideAdd(I32MaxOver12, WideOfInt(1))), Number(-12), None, None),
     DateOnly(None, None, Some(I64MaxOver7), None),
     DateOnly(None, None, Some(WideAdd(I64MaxOver7, WideOfInt(1))),
              Some(WideNeg(I64MaxOver7))),
     DateOnly(None, None, Some(WeeksOfMaxSecs), Number(3)),
     DateOnly(None, None, Some(WeeksOfMaxSecs), Number(4)),
     TimeOnly(Some(WideDiv(MaxSecs, 3600)), Number(12),
              Some(Seconds(FALSE, WideOfInt(55), <<>>))),
     TimeOnly(None, None, Some(Seconds(FALSE, MaxSecs, <<"8", "0", "7">>))),
     TimeOnly(None, None, Some(Seconds(FALSE, MaxSecs, <<"8", "0", "8">>))),
     TimeOnly(None, None,
              Some(Seconds(TRUE, MaxSecs, <<"8", "0", "7">>))),
     TimeOnly(None, None,
              Some(Seconds(TRUE, MaxSecs, <<"8", "0", "7", "0", "0", "1">>))),
     TimeOnly(None, Some(I64MinOver60),
              Some(Seconds(TRUE, WideNeg(I64Min), <<"5">>))),
     TimeOnly(None, Some(WideNeg(I64MinOver60)),
              Some(Seconds(TRUE, WideNeg(I64Min), <<"5">>))),
     TimeOnly(None, Some(I64MinOver60), Some(Seconds(TRUE, WideNeg(I64Min), <<>>)))}

FieldTuples == SignedFields \cup EdgeFields

FieldTexts == {TextOf(f) : f \in FieldTuples}

Texts ==
    CanonicalTexts \cup NegativeTexts \cup ExtremeTexts \cup UnprefixedTexts
        \cup OrderTexts \cup FieldTexts

\* the values of proptest_format_and_back: any i32 months, seconds in
\* (i64::MIN / 1000)..(i64::MAX / 1000), nanoseconds below 10^9
MonthsDrawn == {IntOfWide(I32Min), -23, -12, -1, 0, 1, 11, 12, 25, IntOfWide(I32Max)}

SecsDrawn ==
    {WideAdd(MinSecs, WideOfInt(1)), WideAdd(MaxSecs, WideOfInt(-1))}
        \cup {WideOfInt(n) : n \in {-90061, -86400, -3600, -61, -60, -1, 0, 1,
                                    59, 60, 3661, 86400, 90061}}

NanosDrawn == {0, 1, 10, 500000000, 999999990, 999999999}

Durations ==
    {RelativeDuration(months, Duration(secs, nanos)) :
        months \in MonthsDrawn, secs \in SecsDrawn, nanos \in NanosDrawn}

ParseInit ==
    /\ rules = <<>>
    /\ emitted = <<>>
    /\ ret = <<>>
    /\ nones = <<>>
    /\ made = <<>>
    /\ outcome = [op |-> "none", arg |-> 0, ok |-> TRUE]
    /\ \/ \E text \in Texts :
              call = [fn |-> "text", input |-> text, out |-> None, back |-> None]
       \/ \E d \in Durations :
              call = [fn |-> "duration", input |-> d, out |-> None, back |-> None]

Codec(from, fn, out, back) ==
    /\ call.fn = from
    /\ call' = [call EXCEPT !.fn = fn, !.out = out, !.back = back]
    /\ UNCHANGED <<rules, emitted, ret, nones, made, outcome>>

CallParse ==
    /\ call.fn = "text"
    /\ \E overflow_checks \in BOOLEAN :
           Codec("text", "parse",
                 parse_from_iso8601(call.input, overflow_checks), None)

CallFormat ==
    /\ call.fn = "duration"
    /\ Codec("duration", "format", format_to_iso8601(call.input), None)

CallFormatParsed ==
    /\ call.fn = "parse"
    /\ IsOk(call.out)
    /\ Codec("parse", "parse_format", call.out, format_to_iso8601(call.out.val))

CallParseFormatted ==
    /\ call.fn = "format"
    /\ \E overflow_checks \in BOOLEAN :
           Codec("format", "format_parse", call.out,
                 parse_from_iso8601(call.out, overflow_checks))

ParseNext == CallParse \/ CallFormat \/ CallFormatParsed \/ CallParseFormatted

ParseSpec == ParseInit /\ [][ParseNext]_vars

(***************************************************************************)
(* delta.rs at the full width of i32.  The sum, the product and the        *)
(* difference of two i32 are computed exactly; a result outside i32 is a   *)
(* panic in a build with overflow checks and the low 32 bits of the exact  *)
(* result in a build without.                                              *)
(***************************************************************************)
TwoTo32 == Wide(FALSE, <<4, 2, 9, 4, 9, 6, 7, 2, 9, 6>>)

\* x mod 2^32 for x >= 0
Low32(x) ==
    The({WideAdd(v, WideNeg(WideMul(WideMul(WideDiv(WideDiv(v, 65536), 65536),
                                            65536), 65536))) : v \in {x}})

\* x mod 2^32 for any x
Mod32(x) ==
    The({IF ~v.neg THEN Low32(v)
         ELSE The({IF r = WideZero THEN r ELSE WideAdd(TwoTo32, WideNeg(r)) :
                      r \in {Low32(WideNeg(v))}}) : v \in {x}})

\* the low 32 bits of x read as an i32
WrapI32(x) ==
    The({IF WideLe(low, I32Max) THEN IntOfWide(low)
         ELSE IntOfWide(WideAdd(low, WideNeg(TwoTo32))) : low \in {Mod32(x)}})

\* an i32 operation whose exact result is x
OverflowingI32(x, overflow_checks) ==
    The({IF InI32(v) THEN Some(IntOfWide(v))
         ELSE IF overflow_checks THEN Panic
         ELSE Some(WrapI32(v)) : v \in {x}})

\* the exact product of x and an i32 b, by the halves of the magnitude of b
WideTimes(x, b) ==
    The({The({IF v[2].neg THEN WideNeg(p) ELSE p :
                 p \in {WideAdd(WideMul(WideMul(v[1], MagMod(MagDiv(v[2].mag, 65536), 65536)),
                                        65536),
                                WideMul(v[1], MagMod(v[2].mag, 65536)))}}) :
            v \in {<<x, WideOfInt(b)>>}})

AddI32(a, b, overflow_checks) ==
    OverflowingI32(WideAdd(WideOfInt(a), WideOfInt(b)), overflow_checks)

SubI32(a, b, overflow_checks) ==
    OverflowingI32(WideAdd(WideOfInt(a), WideNeg(WideOfInt(b))), overflow_checks)

MulI32(a, b, overflow_checks) ==
    OverflowingI32(WideTimes(WideOfInt(a), b), overflow_checks)

\* shift_months_opt once date.month() as i32 + months is computed; the year
\* is far from the ends of i32 and the quotient at most a twelfth of them
ShiftByTotal(date, total) ==
    IF IsPanic(total) THEN Panic
    ELSE The({ReplaceFields(date, ym[1], ym[2],
                            normalise_day(ym[1], ym[2], date.day)) :
                 ym \in {Borrowed(YearMonthOf(date.year, total.val))}})

shift_months_opt_i32(date, months, overflow_checks) ==
    ShiftByTotal(date, AddI32(date.month, months, overflow_checks))

\* shift_months_opt on an argument that was computed, a panic ending the call
ShiftIfComputed(date, months, overflow_checks) ==
    IF IsPanic(months) THEN Panic
    ELSE shift_months_opt_i32(date, months.val, overflow_checks)

shift_years_opt_i32(date, years, overflow_checks) ==
    ShiftIfComputed(date, MulI32(years, 12, overflow_checks), overflow_checks)

YearsIfComputed(date, years, overflow_checks) ==
    IF IsPanic(years) THEN Panic
    ELSE shift_years_opt_i32(date, years.val, overflow_checks)

with_year_opt_i32(date, year, overflow_checks) ==
    YearsIfComputed(date, SubI32(year, date.year, overflow_checks),
                    overflow_checks)

(***************************************************************************)
(* WidthSpec: the fallible shifts applied to arguments from all over i32,  *)
(* in a build with overflow checks and in one without.                     *)
(***************************************************************************)
I32MaxInt == IntOfWide(I32Max)

I32MinInt == IntOfWide(I32Min)

\* the ends of i32, a twelfth and a sixth of them, the span of the years of
\* NaiveDate in years and in months, and small arguments
WidthArgs ==
    {I32MinInt, I32MinInt + 1, I32MinInt + 12, -357913942, -178956971,
     -178956970, -6291456, -3170000, -524288, -264163, -2020, -13, -12, -1, 0,
     1, 11, 12, 13, 2021, 260122, 262142, 262143, 3121464, 3121465, 6291456,
     178956970, 178956971, 357913942, 357913943, I32MaxInt - 12,
     I32MaxInt - 11, I32MaxInt - 1, I32MaxInt}

\* dates of the tests and the first and the last date of NaiveDate
WidthDates ==
    {MkDate(2020, 1, 31), MkDate(2020, 2, 29), MkDate(2020, 12, 31),
     MkDate(-262143, 1, 1), MkDate(262142, 12, 31)}

WidthInit ==
    /\ rules = <<>>
    /\ emitted = <<>>
    /\ ret = <<>>
    /\ nones = <<>>
    /\ made = <<>>
    /\ outcome = [op |-> "none", arg |-> 0, ok |-> TRUE]
    /\ \E date \in WidthDates, arg \in WidthArgs :
           call = [fn |-> "none", date |-> date, arg |-> arg, out |-> None]

CallShiftMonthsOpt ==
    \E overflow_checks \in BOOLEAN :
        Called("shift_months_opt",
               shift_months_opt_i32(call.date, call.arg, overflow_checks))

CallShiftYearsOpt ==
    \E overflow_checks \in BOOLEAN :
        Called("shift_years_opt",
               shift_years_opt_i32(call.date, call.arg, overflow_checks))

CallWithYearOptWide ==
    \E overflow_checks \in BOOLEAN :
        Called("with_year_opt",
               with_year_opt_i32(call.date, call.arg, overflow_checks))

WidthNext == CallShiftMonthsOpt \/ CallShiftYearsOpt \/ CallWithYearOptWide

WidthSpec == WidthInit /\ [][WidthNext]_vars

(***************************************************************************)
(* rule.rs at the full width of its integers: the cursor and the count are *)
(* usize values of 64 bits, kept as wide numbers, and the multiplier of    *)
(* the step is the cursor cast to i32.                                     *)
(***************************************************************************)
\* self._current_count as i32: the low 32 bits of the cursor
AsI32(cursor) == WrapI32(cursor)

\* impl Mul<i32> for RelativeDuration: months an i32 product, the duration
\* (whole seconds here, far inside the range of Duration) an exact one
RelMulI32(r, rhs, overflow_checks) ==
    The({IF IsPanic(months) THEN Panic
         ELSE [months |-> months.val,
               duration |-> WideTimes(WideOfInt(r.duration), rhs)] :
            months \in {MulI32(r.months, rhs, overflow_checks)}})

\* NaiveDate + Duration: the whole days of the duration are added, and a
\* date outside NaiveDate is a panic
NaiveAddWide(date, secs) ==
    The({IF WideLe(WideOfInt(-200000000), days) /\ WideLe(days, WideOfInt(200000000))
         THEN The({IF YearInRange(moved.year) THEN moved ELSE Panic :
                      moved \in {DaysToDate(DateToDays(date) + IntOfWide(days))}})
         ELSE Panic : days \in {WideDiv(secs, SecsPerDay)}})

AddWideIfDate(date, secs) ==
    IF IsPanic(date) THEN Panic ELSE NaiveAddWide(date, secs)

\* self.start + step: shift_months unwrapped, then the duration
DateAddRelI32(date, step, overflow_checks) ==
    IF IsPanic(step) THEN Panic
    ELSE The({AddWideIfDate(IF IsPanic(shifted) THEN Panic ELSE Unwrap(shifted),
                            step.duration) :
                 shifted \in {shift_months_opt_i32(date, step.months,
                                                   overflow_checks)}})

WideCurrentDate(self, multiplier, overflow_checks) ==
    The({IF IsSome(self.rolling_day)
         THEN RollIfDate(current_date, self.rolling_day.val)
         ELSE current_date :
            current_date \in {DateAddRelI32(self.start,
                                            RelMulI32(self.freq, multiplier,
                                                      overflow_checks),
                                            overflow_checks)}})

\* next() from the end test on
WideAfterCountCheck(self, multiplier, current_date) ==
    IF IsPanic(current_date)
    THEN [item |-> Panic, self |-> self, multiplier |-> Some(multiplier)]
    ELSE IF EndCrossed(self, current_date)
    THEN [item |-> None, self |-> self, multiplier |-> Some(multiplier)]
    ELSE [item |-> Some(current_date),
          self |-> [self EXCEPT !.current_count = WideAdd(@, WideOfInt(1))],
          multiplier |-> Some(multiplier)]

\* Iterator::next: the item, the rule after the call, and the multiplier of
\* the step when one was computed
DateRuleNextWide(self, overflow_checks) ==
    IF IsSome(self.count) /\ WideLe(self.count.val, self.current_count)
    THEN [item |-> None, self |-> self, multiplier |-> None]
    ELSE The({WideAfterCountCheck(self, multiplier,
                                  WideCurrentDate(self, multiplier,
                                                  overflow_checks)) :
                 multiplier \in {AsI32(self.current_count)}})

(***************************************************************************)
(* LongSpec: a rule that has been iterated for a long time.  Its steps are *)
(* of seconds or of an hour, with which every one of the calls before      *)
(* returned a date, however many there were; a monthly rule is met after   *)
(* its first calls.                                                        *)
(***************************************************************************)
\* calls of next() followed from each rule
MaxLongCalls == 2

TwoTo31 == WideAdd(I32Max, WideOfInt(1))

\* how many values the rule has returned so far
LongCursors ==
    {WideOfInt(n) : n \in {0, 1, 2, 86400}}
        \cup {WideAdd(TwoTo31, WideOfInt(n)) : n \in {-2, -1, 0, 1, 86400}}
        \cup {WideAdd(TwoTo32, WideOfInt(n)) : n \in {-1, 0, 1}}

\* seconds(1), seconds(-1), hours(1), a step of nothing, and months(1)
LongFreqs ==
    {RelativeDuration(0, 1), RelativeDuration(0, -1), RelativeDuration(0, 3600),
     RelativeDuration(0, 0), RelativeDuration(1, 0)}

\* no count, or with_count(2^31 + 1)
LongCounts == {None, Some(WideAdd(TwoTo31, WideOfInt(1)))}

LongInit ==
    /\ rules = <<>>
    /\ emitted = <<>>
    /\ ret = <<>>
    /\ nones = <<>>
    /\ made = <<>>
    /\ outcome = [op |-> "none", arg |-> 0, ok |-> TRUE]
    /\ \E start \in Starts, freq \in LongFreqs, count \in LongCounts,
          cursor \in LongCursors :
           /\ freq.months # 0 => WideLe(cursor, WideOfInt(2))
           /\ IsSome(count) => WideLe(cursor, count.val)
           /\ call = [fn |-> "none",
                      rule |-> DateRule(freq, start, None, count, None, cursor),
                      before |-> WideZero, item |-> None, multiplier |-> None,
                      calls |-> 0]

LongIterNext ==
    /\ call.calls < MaxLongCalls
    /\ \E overflow_checks \in BOOLEAN :
           \E res \in {DateRuleNextWide(call.rule, overflow_checks)} :
               call' = [fn |-> "next", rule |-> res.self,
                        before |-> call.rule.current_count, item |-> res.item,
                        multiplier |-> res.multiplier,
                        calls |-> call.calls + 1]
    /\ UNCHANGED <<rules, emitted, ret, nones, made, outcome>>

LongNext == LongIterNext

LongSpec == LongInit /\ [][LongNext]_vars

(***************************************************************************)
(* The calendar stated directly, for the claims to compare against.        *)
(***************************************************************************)
Min(a, b) == IF a <= b THEN a ELSE b

\* months counted from year 0: year * 12 + (month - 1)
MonthIndex(date) == date.year * 12 + (date.month - 1)

\* the date n months from date: month index moved by n, day clipped to the
\* length of the target month
MonthsAway(date, n) ==
    LET idx == MonthIndex(date) + n
    IN  MkDate(idx \div 12, (idx % 12) + 1,
               Min(date.day, DaysInMonth(idx \div 12, (idx % 12) + 1)))

\* whole days of a duration, toward zero
WholeDays(secs) == IF secs >= 0 THEN secs \div SecsPerDay ELSE -((-secs) \div SecsPerDay)

\* the date n days from date
DaysAway(date, n) == DaysToDate(DateToDays(date) + n)

\* the value of index n of a rule: n times the months of the step from the
\* start, then n times its duration, then the rolling day clipped to the month
NthValue(self, n) ==
    LET base == DaysAway(MonthsAway(self.start, self.freq.months * n),
                         WholeDays(self.freq.duration * n))
    IN  IF IsSome(self.rolling_day)
        THEN MkDate(base.year, base.month,
                    Min(self.rolling_day.val, DaysInMonth(base.year, base.month)))
        ELSE base

\* the index of the first value rules[i] emits as the object it is: a rule
\* made by with_rolling_day starts at its receiver's cursor
FirstIndex(i) ==
    IF made[i].op = "with_rolling_day" THEN made[i].recv.current_count ELSE 0

\* v lies at or past the end of the rule, on the side away from its start
AtOrPastEnd(self, v) ==
    IF DateLe(self.start, self.end.val)
    THEN DateLe(self.end.val, v) ELSE DateLe(v, self.end.val)

Forward(freq) ==
    freq.months >= 0 /\ freq.duration >= 0 /\ (freq.months > 0 \/ freq.duration > 0)

Backward(freq) ==
    freq.months <= 0 /\ freq.duration <= 0 /\ (freq.months < 0 \/ freq.duration < 0)

(***************************************************************************)
(* Claims.                                                                 *)
(***************************************************************************)

\* C1: a rule without rolling day returns, at its N-th successful next()
\* (N from 0), the start moved by N times the months of the step and then by
\* N times its duration, computed from the start and not from the value
\* before; so a step of whole months lands on the start's day of month in
\* every month that has that day.
C1_NthFromStart ==
    \A i \in 1..Len(rules) :
        IsNone(rules[i].rolling_day) =>
            \A k \in 1..Len(emitted[i]) :
                /\ emitted[i][k] =
                       DaysAway(MonthsAway(rules[i].start,
                                           rules[i].freq.months * (k - 1)),
                                WholeDays(rules[i].freq.duration * (k - 1)))
                /\ (/\ rules[i].freq.duration = 0
                    /\ DaysInMonth(emitted[i][k].year, emitted[i][k].month)
                           >= rules[i].start.day)
                       => emitted[i][k].day = rules[i].start.day

\* monthly from 2020-01-30: 2020-01-30, 2020-02-29, 2020-03-30
C1_Witness ==
    \E i \in 1..Len(rules) :
        /\ rules[i].start = MkDate(2020, 1, 30)
        /\ rules[i].freq = RelativeDuration(1, 0)
        /\ IsNone(rules[i].rolling_day)
        /\ Len(emitted[i]) >= 3
        /\ emitted[i][2] = MkDate(2020, 2, 29)
        /\ emitted[i][3] = MkDate(2020, 3, 30)

\* C2: shift_months(d, n) is the date whose month index is d's month index
\* plus n, with the month in 1..12 also when d.month + n is zero, negative or
\* a multiple of 12, and whose day is d's day clipped to the length of the
\* target month; shift_months(d, 0) is d.
C2_ShiftMonthsTarget ==
    call.fn = "shift_months" =>
        /\ IsSome(call.out)
        /\ call.out = Some(MonthsAway(call.date, call.months))
        /\ MonthIndex(call.out.val) = MonthIndex(call.date) + call.months
        /\ call.out.val.month \in 1..12
        /\ call.months = 0 => call.out = Some(call.date)

\* a 31st moved back across two year boundaries onto a 30-day month
C2_Witness ==
    /\ call.fn = "shift_months"
    /\ call.date.day = 31
    /\ call.date.month + call.months = -13
    /\ call.out = Some(MkDate(call.date.year - 2, 11, 30))

\* C3: d + r is the months of r applied first (with the day clipped) and the
\* duration of r added to the result; d - r is d + (-r).
C3_MonthsThenDuration ==
    /\ call.fn = "add" =>
           call.out = Some(DaysAway(MonthsAway(call.date, call.months),
                                    WholeDays(call.dur)))
    /\ call.fn = "sub" =>
           call.out = Some(DaysAway(MonthsAway(call.date, -call.months),
                                    WholeDays(-call.dur)))

\* 2020-02-29 + (24 months, 1 day) == 2022-03-01
C3_Witness ==
    /\ call.fn = "add"
    /\ call.date = MkDate(2020, 2, 29)
    /\ call.months = 24
    /\ call.dur = SecsPerDay
    /\ call.out = Some(MkDate(2022, 3, 1))

\* what C4 says of every rule with an end, apart from with_end(start): the
\* values emitted are the candidates of the consecutive indices up to the
\* cursor, none of them at or past the end; None is returned only with the
\* candidate of the cursor at or past the end; the -1 month rule from
\* 2020-03-31 with end 2019-12-31 emits 2020-03-31, 2020-02-29, 2020-01-31.
EndStopsAtFirstCrossing ==
    \A i \in 1..Len(rules) :
        IsSome(rules[i].end) =>
            /\ rules[i].current_count = FirstIndex(i) + Len(emitted[i])
            /\ \A k \in 1..Len(emitted[i]) :
                   /\ emitted[i][k] = NthValue(rules[i], FirstIndex(i) + k - 1)
                   /\ ~AtOrPastEnd(rules[i], emitted[i][k])
            /\ ~IsPanic(ret[i])
            /\ IsNone(ret[i]) =>
                   AtOrPastEnd(rules[i], NthValue(rules[i], rules[i].current_count))
            /\ (/\ rules[i].start = MkDate(2020, 3, 31)
                /\ rules[i].freq = RelativeDuration(-1, 0)
                /\ rules[i].end = Some(MkDate(2019, 12, 31))
                /\ IsNone(rules[i].rolling_day)
                /\ IsNone(ret[i]))
                   => emitted[i] = <<MkDate(2020, 3, 31), MkDate(2020, 2, 29),
                                     MkDate(2020, 1, 31)>>

C5_CountExact ==
    \A i \in 1..Len(rules) :
        made[i].op = "with_count" =>
            /\ rules[i].count \in {Some(n) : n \in 0..MaxCount}
            /\ Len(emitted[i]) <= rules[i].count.val
            /\ ~IsPanic(ret[i])
            /\ IsNone(ret[i]) => Len(emitted[i]) = rules[i].count.val

\* with_count(2) after two values and the None that follows them
C5_Witness ==
    \E i \in 1..Len(rules) :
        /\ made[i].op = "with_count"
        /\ rules[i].count = Some(2)
        /\ Len(emitted[i]) = 2
        /\ IsNone(ret[i])

\* the end of the rule is crossed by the candidate of some index the model
\* drives a rule to
EndWithinReach(self) ==
    \E n \in 0..MaxCursor : AtOrPastEnd(self, NthValue(self, n))

\* rules[i] is a rule without rolling day whose end lies on the side its step
\* moves to
StepsTowardEnd(i) ==
    /\ i \in 1..Len(rules)
    /\ IsSome(rules[i].end)
    /\ IsNone(rules[i].rolling_day)
    /\ \/ DateLe(rules[i].start, rules[i].end.val) /\ Forward(rules[i].freq)
       \/ DateLt(rules[i].end.val, rules[i].start) /\ Backward(rules[i].freq)
    /\ EndWithinReach(rules[i])

\* the last next() on rules[i] returned None
ReturnedNone(i) == i \in 1..Len(rules) /\ IsNone(ret[i])

\* rules[i] never returns None: it has neither count nor end, or it has no
\* rolling day and a step that moves away from its end
NeverEnds(i) ==
    \/ IsNone(rules[i].count) /\ IsNone(rules[i].end)
    \/ /\ IsSome(rules[i].end)
       /\ IsNone(rules[i].rolling_day)
       /\ \/ DateLt(rules[i].end.val, rules[i].start) /\ Forward(rules[i].freq)
          \/ DateLt(rules[i].start, rules[i].end.val) /\ Backward(rules[i].freq)

\* C6: a rule with_end returned (in Spec the derived rule, rules[2]), with no
\* rolling day and iterated, returns None after
\* finitely many values when its step moves from the start toward the end
\* (forward with end >= start, backward with end < start; ends the candidates
\* of indices 0..MaxCursor cross), and never returns None when its step is
\* forward with end < start (or backward with end > start); a rule with
\* neither count nor end never returns None.
C6_EndTerminates ==
    /\ [](StepsTowardEnd(2) => <>ReturnedNone(2))
    /\ [](\A i \in 1..Len(rules) : NeverEnds(i) => nones[i] = 0)

\* a forward rule that emitted two values and then met its end
C6_Witness ==
    \E i \in 1..Len(rules) :
        /\ IsSome(rules[i].end)
        /\ DateLt(rules[i].start, rules[i].end.val)
        /\ Forward(rules[i].freq)
        /\ Len(emitted[i]) >= 2
        /\ IsNone(ret[i])

\* C7: once next() has returned None on a rule, every later next() on it
\* returns None as well and leaves the rule, its cursor included, as it is.
C7_ExhaustedStays ==
    [][\A i \in 1..Len(rules) :
           IsNone(ret[i]) =>
               /\ IsNone(ret'[i])
               /\ rules'[i] = rules[i]
               /\ emitted'[i] = emitted[i]]_vars

\* a rule with an end polled twice after its last value
C7_Witness ==
    \E i \in 1..Len(rules) :
        /\ IsSome(rules[i].end)
        /\ Len(emitted[i]) >= 1
        /\ IsNone(ret[i])
        /\ nones[i] >= 2

\* C8: with_count and with_end on a receiver whose cursor is k > 0 return a
\* rule with the receiver's start, freq and rolling_day and cursor 0: the
\* first value it emits is the value of index 0.
C8_CountEndRestart ==
    \A i \in 1..Len(rules) :
        (made[i].op \in {"with_count", "with_end"}
         /\ made[i].recv.current_count > 0) =>
            /\ rules[i].start = made[i].recv.start
            /\ rules[i].freq = made[i].recv.freq
            /\ rules[i].rolling_day = made[i].recv.rolling_day
            /\ rules[i].current_count = Len(emitted[i])
            /\ Len(emitted[i]) >= 1 => emitted[i][1] = NthValue(rules[i], 0)

\* with_count on a rule with a rolling day that had emitted two values
C8_Witness ==
    \E i \in 1..Len(rules) :
        /\ made[i].op = "with_count"
        /\ made[i].recv.current_count >= 2
        /\ IsSome(made[i].recv.rolling_day)
        /\ Len(emitted[i]) >= 1

\* C9: with_rolling_day(day), day in 1..31, on a receiver whose cursor is
\* k > 0 returns a rule reset to cursor 0: the first value it emits is the
\* value of index 0 with the rolling day applied.
C9_RollingDayRestarts ==
    \A i \in 1..Len(rules) :
        (made[i].op = "with_rolling_day" /\ made[i].recv.current_count > 0) =>
            /\ rules[i].current_count = Len(emitted[i])
            /\ Len(emitted[i]) >= 1 => emitted[i][1] = NthValue(rules[i], 0)

\* C10: the builders leave their receiver as it is, and next() on one rule
\* leaves every other rule as it is: a rule changes only by a next() of its
\* own that emits a value.
C10_ReceiverUntouched ==
    [][\A i \in 1..Len(rules) :
           rules'[i] # rules[i] =>
               /\ Len(rules') = Len(rules)
               /\ rules'[i] = [rules[i] EXCEPT !.current_count = @ + 1]
               /\ Len(emitted'[i]) = Len(emitted[i]) + 1
               /\ \A j \in (1..Len(rules)) \ {i} :
                      rules'[j] = rules[j] /\ emitted'[j] = emitted[j]]_vars

\* the base rule emitted a value, a rule was derived from it and emitted a
\* value, and the base rule then emitted its next value
C10_Witness ==
    /\ Len(rules) = 2
    /\ made[2].recv.current_count >= 1
    /\ Len(emitted[2]) >= 1
    /\ rules[1].current_count > made[2].recv.current_count
    /\ Len(emitted[1]) = rules[1].current_count

\* C11: every value a rule with rolling day k emits has the day of month
\* min(k, number of days of the value's own month), for every start and every
\* step, the steps with a duration included, and next() on such a rule never
\* panics; monthly with rolling day 31 emits the last day of every month.
C11_RollingDayClipped ==
    \A i \in 1..Len(rules) :
        IsSome(rules[i].rolling_day) =>
            /\ ~IsPanic(ret[i])
            /\ \A k \in 1..Len(emitted[i]) :
                   emitted[i][k].day =
                       Min(rules[i].rolling_day.val,
                           DaysInMonth(emitted[i][k].year, emitted[i][k].month))

\* a step of one month and one day from 2020-01-30 with rolling day 31:
\* 2020-01-31, 2020-03-31, 2020-04-30
C11_Witness ==
    /\ rules[1].start = MkDate(2020, 1, 30)
    /\ rules[1].freq = RelativeDuration(1, SecsPerDay)
    /\ rules[1].rolling_day = Some(31)
    /\ emitted[1] = <<MkDate(2020, 1, 31), MkDate(2020, 3, 31), MkDate(2020, 4, 30)>>

\* C13: with_rolling_day(day) returns Err, as a value, exactly when day is 0
\* or above 31, and Ok of a rule whose rolling_day is day for day in 1..31; so
\* the rolling day of every rule, when set, lies in 1..31.
C13_RollingDayChecked ==
    /\ outcome.op = "with_rolling_day" =>
           /\ outcome.ok <=> outcome.arg \in 1..31
           /\ ~outcome.ok <=> (outcome.arg = 0 \/ outcome.arg > 31)
           /\ outcome.ok => rules[Len(rules)].rolling_day = Some(outcome.arg)
    /\ \A i \in 1..Len(rules) :
           IsSome(rules[i].rolling_day) => rules[i].rolling_day.val \in 1..31

\* with_rolling_day(32) refused on a rule that had taken rolling day 1
C13_Witness ==
    /\ outcome = [op |-> "with_rolling_day", arg |-> 32, ok |-> FALSE]
    /\ rules[1].rolling_day = Some(1)

\* the values of rules[2], a with_rolling_day variant of rules[1] made at cursor
\* 0, are those of rules[1] with with_day(., k) applied, index by index
SameValuesRolled ==
    \A n \in 1..Min(Len(emitted[1]), Len(emitted[2])) :
        Some(emitted[2][n]) = with_day(emitted[1][n], rules[2].rolling_day.val)

\* neither of the two rules emits more values than the other when that one is
\* exhausted
SameLength ==
    /\ IsNone(ret[1]) => Len(emitted[2]) <= Len(emitted[1])
    /\ IsNone(ret[2]) => Len(emitted[1]) <= Len(emitted[2])

C14_FormatAndBack ==
    call.fn = "format_parse" => call.back = Ok(call.input)

\* a negative duration with a sub-second part below one second in size (its
\* text carries the pushed '-') has made the round trip
C14_Witness ==
    /\ call.fn = "format_parse"
    /\ call.input.months = IntOfWide(I32Min)
    /\ call.input.duration = Duration(WideOfInt(-1), 500000000)
    /\ call.out = <<"P", "-", "1", "7", "8", "9", "5", "6", "9", "7", "0", "Y",
                    "-", "8", "M", "T", "-", "0", ".", "5", "S">>
    /\ call.back = Ok(call.input)

\* C15: a text in canonical form (P, then years 1..99999999, months 1..11,
\* days 1..29 as present, then T with hours 1..23, minutes 1..59 and seconds
\* 1..59, or 0..59 with a fraction of 1 to 9 digits not ending in 0) parses
\* to Ok, and the value formats back to the same text.
C15_ParseAndBack ==
    /\ call.fn = "parse" /\ call.input \in CanonicalTexts => IsOk(call.out)
    /\ call.fn = "parse_format" /\ call.input \in CanonicalTexts
           => call.back = call.input

\* the longest canonical text drawn has made the round trip
C15_Witness ==
    /\ call.fn = "parse_format"
    /\ call.input = <<"P", "9", "9", "9", "9", "9", "9", "9", "9", "Y", "1", "1", "M",
                      "2", "9", "D", "T", "2", "3", "H", "5", "9", "M", "5", "9", ".">>
                        \o Nines \o <<"S">>
    /\ call.back = call.input

\* the nanoseconds a fraction text stands for: its first nine digits, zeros
\* where it is shorter
NanosOf(fraction) ==
    IntOfWide(Wide(FALSE, [i \in 1..9 |-> IF i <= Len(fraction)
                                           THEN DigitOf(fraction[i]) ELSE 0]))

\* the digits of nanos (below 10^9) as a fraction: nine digits, the zeros at
\* the end dropped
RECURSIVE FractionDigits(_, _)
FractionDigits(nanos, scale) ==
    IF nanos = 0 THEN <<>>
    ELSE <<DigitChars[(nanos \div scale) + 1]>>
             \o FractionDigits(nanos % scale, scale \div 10)

EndsWith(text, field) ==
    /\ Len(text) > Len(field)
    /\ SubSeq(text, Len(text) - Len(field) + 1, Len(text)) = field
    /\ text[Len(text) - Len(field)] # "-"

\* the seconds field of a duration below zero whose seconds and nanoseconds
\* are kept as secs (negative) and nanos (positive): '-', the seconds within
\* the minute, the fraction, both as magnitudes
NegativeField(d) ==
    <<"-">> \o Str(-WideRem(WideAdd(d.secs, WideOfInt(1)), 60)) \o <<".">>
        \o FractionDigits(NanosPerSec - d.nanos, NanosPerSec \div 10) \o <<"S">>

\* C16: a seconds field with a leading '-', integer part i <= 0 and a
\* fraction of f > 0 nanoseconds parses to i * 10^9 - f nanoseconds, kept as
\* seconds i - 1 and nanoseconds 10^9 - f; a negative duration with a
\* sub-second part is formatted with the magnitude of the fraction after one
\* '-' before the seconds; and "PT-0.999999999S" parses and formats back to
\* itself.
C16_NegativeFraction ==
    /\ \A whole \in NegWholes, sep \in Separators, f \in NegFractions :
           call.fn = "parse" /\ call.input = NegText(whole, sep, f)
               => call.out = Ok(RelativeDuration(0,
                                  Duration(WideOfInt(-whole - 1),
                                           NanosPerSec - NanosOf(f))))
    /\ call.fn = "format" /\ call.input.duration.secs.neg
                          /\ call.input.duration.nanos > 0
           => EndsWith(call.out, NegativeField(call.input.duration))
    /\ call.fn = "parse_format" /\ call.input = NegText(0, ".", Nines)
           => call.back = call.input

\* "PT-0.999999999S" has been parsed, to seconds -1 and nanoseconds 1, and
\* formatted back
C16_Witness ==
    /\ call.fn = "parse_format"
    /\ call.input = NegText(0, ".", Nines)
    /\ call.out = Ok(RelativeDuration(0, Duration(WideOfInt(-1), 1)))
    /\ call.back = <<"P", "T", "-", "0", ".">> \o Nines \o <<"S">>

\* C17: parse_from_iso8601 returns Ok or Err for every text and never panics.
\* Violated: in a build with overflow checks a seconds field at i64::MIN
\* with a fraction other than zero panics at int - 1.
C17_NeverPanics ==
    /\ call.fn = "parse" => ~IsPanic(call.out)
    /\ call.fn = "format_parse" => ~IsPanic(call.back)

\* the text after the first designator c of s, s itself without one
After(s, c) == IF IsSome(split_once(s, c)) THEN split_once(s, c).val[2] ELSE s

\* the text between 'P' and the first 'T', and the text after that 'T'
DatePart(text) ==
    IF IsSome(split_once(Tail(text), "T")) THEN split_once(Tail(text), "T").val[1]
    ELSE Tail(text)

TimePart(text) ==
    IF IsSome(split_once(Tail(text), "T")) THEN split_once(Tail(text), "T").val[2]
    ELSE <<>>

\* what the fields leave over when taken in their order
LeftOver(part, order) ==
    IF Len(order) = 3
    THEN After(After(After(part, order[1]), order[2]), order[3])
    ELSE After(After(After(After(part, order[1]), order[2]), order[3]), order[4])

\* the characters of a part that belong to no number
Letters(part) ==
    SelectSeq(part, LAMBDA c : ~IsDigit(c) /\ c \notin {"+", "-", ".", ","})

\* the letters are designators of the order, each at most once, in order
InOrder(letters, order) ==
    /\ \A i \in 1..Len(letters) : \E k \in 1..Len(order) : order[k] = letters[i]
    /\ \A i, j \in 1..Len(letters) :
           i < j => \E k, l \in 1..Len(order) :
                        k < l /\ order[k] = letters[i] /\ order[l] = letters[j]

DateOrder == <<"Y", "M", "W", "D">>

TimeOrder == <<"H", "M", "S">>

Malformed(text) ==
    \/ text = <<>>
    \/ text[1] # "P"
    \/ LeftOver(DatePart(text), DateOrder) # <<>>
    \/ LeftOver(TimePart(text), TimeOrder) # <<>>
    \/ ~InOrder(Letters(DatePart(text)), DateOrder)
    \/ ~InOrder(Letters(TimePart(text)), TimeOrder)

\* C18: parse_from_iso8601 returns Err for every text that does not start
\* with 'P' and for every text that leaves a character over once the fields
\* are taken in the order Y, M, W, D before the first 'T' and H, M, S after
\* it: designators out of order, repeated, unknown, or of the other part.
\* Violated: a seconds field at i64::MIN with a fraction, followed by more
\* text, panics in a build with overflow checks before the rest is tested.
C18_RejectsLeftOver ==
    call.fn = "parse" /\ Malformed(call.input) => call.out = Err

\* C18 without the panic of C17: a malformed text is never Ok
C18_NeverOk ==
    call.fn = "parse" /\ Malformed(call.input) => ~IsOk(call.out)

\* C19: two month shifts in a row land where one shift by the sum lands for
\* every date with day <= 28, as calls of shift_months and as additions of
\* months; from 2020-01-31 they differ: (d + months(1)) + months(1) is
\* 2020-03-29 and d + (months(1) + months(1)) is 2020-03-31.
C19_NoMemoryOfDay ==
    /\ call.fn \in {"sum", "add"} /\ call.date.day <= 28
           => ~IsPanic(call.out) /\ call.out = call.sum
    /\ call.fn \in {"sum", "add"} /\ call.date = MkDate(2020, 1, 31)
                                  /\ call.months = 1 /\ call.again = 1
           => call.out = MkDate(2020, 3, 29) /\ call.sum = MkDate(2020, 3, 31)

\* the additions from 2020-01-31 have been made and differ
C19_Witness ==
    /\ call.fn = "add"
    /\ call.date = MkDate(2020, 1, 31) /\ call.months = 1 /\ call.again = 1
    /\ call.out = MkDate(2020, 3, 29)
    /\ call.sum = MkDate(2020, 3, 31)

\* the local date-time n months from dt: month index moved by n, day clipped
\* to the length of the target month, the hour of dt
ZonedTarget(dt, n) ==
    LET date == MonthsAway(MkDate(dt.year, dt.month, dt.day), n)
    IN  MkDateTime(date.year, date.month, date.day, dt.hour)

\* C20: for a date-time in a zone, shift_months_opt is None exactly when the
\* target local date-time does not exist or is ambiguous in the zone and Some
\* of the target otherwise, whatever dates the field replacements step
\* through, and shift_months panics exactly when shift_months_opt is None.
\* Violated: a replacement on the way to a target that exists lands in a
\* transition of the zone, or the local time of the receiver is ambiguous.
C20_NoneIffTargetUnresolvable ==
    /\ call.fn = "shift_months_opt"
           => call.out = LocalSingle(ZonedTarget(call.date, call.months))
    /\ call.fn = "shift_months"
           => (IsPanic(call.out)
                  <=> IsNone(shift_months_opt(call.date, call.months)))

\* C20 in the part that holds: shift_months panics exactly when
\* shift_months_opt is None, and a Some is Some of the target
C20_SomeIsTarget ==
    /\ call.fn = "shift_months_opt" /\ IsSome(call.out)
           => call.out = Some(ZonedTarget(call.date, call.months))
    /\ call.fn = "shift_months"
           => call.out = Unwrap(shift_months_opt(call.date, call.months))

(***************************************************************************)
(* C21: with_day(d, day) on a naive date d is None exactly when day is 0   *)
(* or above 31, and never a panic; for a day in 1..=31 it is Some of the   *)
(* date with d's year and month and the smaller of day and the number of   *)
(* days of d's month.                                                      *)
(***************************************************************************)
C21_WithDay ==
    call.fn = "with_day" =>
        /\ ~IsPanic(call.out)
        /\ IsNone(call.out) <=> (call.arg = 0 \/ call.arg > 31)
        /\ call.arg \in 1..31 =>
               call.out = Some(MkDate(call.date.year, call.date.month,
                                      Min(call.arg,
                                          DaysInMonth(call.date.year,
                                                      call.date.month))))

\* with_day(2020-02-01, 31) == Some(2020-02-29)
C21_Witness ==
    /\ call.fn = "with_day"
    /\ call.date = MkDate(2020, 2, 1)
    /\ call.arg = 31
    /\ call.out = Some(MkDate(2020, 2, 29))

(***************************************************************************)
(* C22: with_month(d, m) on a naive date is None exactly when m is 0 or    *)
(* above 12 and otherwise Some of the date with d's year, month m and the  *)
(* smaller of d's day and the number of days of month m in that year, and  *)
(* so is with_month_opt; with_year(d, y), with_year_opt(d, y) and          *)
(* shift_years(d, y - d.year) give the date with year y, d's month and the *)
(* smaller of d's day and the number of days of that month in year y.      *)
(***************************************************************************)
C22_WithMonthWithYear ==
    /\ call.fn \in {"with_month", "with_month_opt"} =>
           /\ IsNone(call.out) <=> (call.arg = 0 \/ call.arg > 12)
           /\ call.arg \in 1..12 =>
                  call.out = Some(MkDate(call.date.year, call.arg,
                                         Min(call.date.day,
                                             DaysInMonth(call.date.year,
                                                         call.arg))))
    /\ call.fn \in {"with_year", "shift_years"} =>
           call.out = MkDate(call.arg, call.date.month,
                             Min(call.date.day,
                                 DaysInMonth(call.arg, call.date.month)))
    /\ call.fn = "with_year_opt" =>
           call.out = Some(MkDate(call.arg, call.date.month,
                                  Min(call.date.day,
                                      DaysInMonth(call.arg, call.date.month))))

\* with_month(2020-01-31, 2) == Some(2020-02-29) and
\* with_year(2020-02-29, 2021) == 2021-02-28
C22_Witness ==
    \/ /\ call.fn = "with_month"
       /\ call.date = MkDate(2020, 1, 31)
       /\ call.arg = 2
       /\ call.out = Some(MkDate(2020, 2, 29))
    \/ /\ call.fn = "with_year"
       /\ call.date = MkDate(2020, 2, 29)
       /\ call.arg = 2021
       /\ call.out = MkDate(2021, 2, 28)

(***************************************************************************)
(* C23: for every year, every month of 1..=12 and every day of 1..=31,     *)
(* normalise_day returns the smaller of the day and the number of days of  *)
(* the month in that year: at most the day, a day of the month, the day    *)
(* itself when that is one, and for February 29 exactly when is_leap_year  *)
(* holds; is_leap_year holds for the years divisible by 4 and not by 100   *)
(* unless by 400, which for 1900..=2020 are the leap years of the          *)
(* reference list.                                                         *)
(***************************************************************************)
DivisibleBy(year, n) == \E k \in -1000..1000 : year = k * n

C23_NormaliseDay ==
    /\ call.fn = "normalise_day" =>
           /\ call.out = Min(call.day, DaysInMonth(call.year, call.month))
           /\ call.out <= call.day
           /\ ValidDate(call.year, call.month, call.out)
           /\ ValidDate(call.year, call.month, call.day) =>
                  call.out = call.day
           /\ (call.month = 2 /\ call.day >= 29) =>
                  /\ call.out \in {28, 29}
                  /\ call.out = 29 <=> is_leap_year(call.year)
    /\ call.fn = "is_leap_year" =>
           /\ call.out <=>
                  /\ DivisibleBy(call.year, 4)
                  /\ ~DivisibleBy(call.year, 100) \/ DivisibleBy(call.year, 400)
           /\ call.year \in TestedYears =>
                  (call.out <=> call.year \in LeapYears1900To2020)

\* the 31st asked of February 1900, which is no leap year
C23_Witness ==
    /\ call.fn = "normalise_day"
    /\ call.year = 1900 /\ call.month = 2 /\ call.day = 31
    /\ call.out = 28

(***************************************************************************)
(* C24: whenever parse_from_iso8601 returns Ok, the months of the result   *)
(* are years * 12 + the months field and its duration is                   *)
(* (((weeks * 7 + days) * 24 + hours) * 60 + minutes) * 60 + seconds plus  *)
(* the fraction, each field taken as written and the sums taken in exact   *)
(* integer arithmetic; whenever one of these combinations does not fit its *)
(* i32, its i64 or the range of Duration, the result is Err.               *)
(***************************************************************************)
ValueOf(v) == IF IsNone(v) THEN WideZero ELSE v.val

WholeOf(s) ==
    IF IsNone(s) THEN WideZero
    ELSE IF s.val.minus THEN WideNeg(s.val.whole) ELSE s.val.whole

\* the fraction in nanoseconds, with the sign the field is written with
FractionNanos(s) ==
    IF IsNone(s) THEN 0
    ELSE IF s.val.minus THEN -NanosOf(s.val.frac) ELSE NanosOf(s.val.frac)

ExactMonths(f) == WideAdd(WideMul(ValueOf(f[1]), 12), ValueOf(f[2]))

ExactDays(f) == WideAdd(WideMul(ValueOf(f[3]), 7), ValueOf(f[4]))

ExactHours(f) == WideAdd(WideMul(ExactDays(f), 24), ValueOf(f[5]))

ExactMinutes(f) == WideAdd(WideMul(ExactHours(f), 60), ValueOf(f[6]))

ExactSeconds(f) == WideAdd(WideMul(ExactMinutes(f), 60), WholeOf(f[7]))

\* x * 10^9, in steps the digit products of which stay small
Billion(x) == WideMul(WideMul(WideMul(x, 1000), 1000), 1000)

ExactNanos(f) ==
    WideAdd(Billion(ExactSeconds(f)), WideOfInt(FractionNanos(f[7])))

\* Duration::MAX is i64::MAX milliseconds, Duration::MIN its negation
MaxNanos == WideMul(WideMul(I64Max, 1000), 1000)

AllFit(f) ==
    /\ InI32(WideMul(ValueOf(f[1]), 12)) /\ InI32(ExactMonths(f))
    /\ InI64(WideMul(ValueOf(f[3]), 7)) /\ InI64(ExactDays(f))
    /\ InI64(WideMul(ExactDays(f), 24)) /\ InI64(ExactHours(f))
    /\ InI64(WideMul(ExactHours(f), 60)) /\ InI64(ExactMinutes(f))
    /\ InI64(WideMul(ExactMinutes(f), 60)) /\ InI64(ExactSeconds(f))
    /\ WideLe(WideNeg(MaxNanos), ExactNanos(f))
    /\ WideLe(ExactNanos(f), MaxNanos)

NanosOfDuration(d) ==
    WideAdd(Billion(d.secs), WideOfInt(d.nanos))

ExactOrErr(f, out) ==
    /\ IsOk(out) =>
           /\ WideOfInt(out.val.months) = ExactMonths(f)
           /\ NanosOfDuration(out.val.duration) = ExactNanos(f)
    /\ ~AllFit(f) => out = Err

C24_ExactOrErr ==
    call.fn = "parse" =>
        \A f \in FieldTuples : call.input = TextOf(f) => ExactOrErr(f, call.out)

\* a seconds field of -9223372036854775808 with a fraction other than zero
MinWithFraction(s) ==
    /\ IsSome(s)
    /\ s.val.minus /\ s.val.whole = WideNeg(I64Min) /\ NanosOf(s.val.frac) # 0

\* the same for the texts whose seconds are not i64::MIN with a fraction
C24_ExactAwayFromMin ==
    call.fn = "parse" =>
        \A f \in FieldTuples :
            (call.input = TextOf(f) /\ ~MinWithFraction(f[7])) =>
                ExactOrErr(f, call.out)

\* "P1Y-10M-1W3DT3H-6M-1S" is 2 months and -4 days +3 h -6 min -1 s
C24_Witness ==
    /\ call.fn = "parse"
    /\ call.input = <<"P", "1", "Y", "-", "1", "0", "M", "-", "1", "W", "3", "D",
                      "T", "3", "H", "-", "6", "M", "-", "1", "S">>
    /\ call.out = Ok(RelativeDuration(2, Duration(WideOfInt(-335161), 0)))

(***************************************************************************)
(* C25: for a naive date d and a month count n, every (year, month, day)   *)
(* that shift_months_opt asks of the date type in its chain of field       *)
(* replacements is a date of the calendar: three replacements (day, month, *)
(* year) for a final day <= 28, four (day 1, month, year, final day)       *)
(* otherwise, each changing one field of the date before it; so no         *)
(* replacement fails and the result is Some of the last one.               *)
(***************************************************************************)
FieldsChanged(a, b) == Cardinality({i \in 1..3 : a[i] # b[i]})

StepsFrom(date, steps) ==
    [i \in 1..Len(steps) |->
        IF i = 1
        THEN FieldsChanged(<<date.year, date.month, date.day>>, steps[1])
        ELSE FieldsChanged(steps[i - 1], steps[i])]

ChainHolds(date, steps, out) ==
    /\ \A i \in 1..Len(steps) :
           /\ ValidDate(steps[i][1], steps[i][2], steps[i][3])
           /\ StepsFrom(date, steps)[i] <= 1
    /\ Len(steps) = IF steps[Len(steps)][3] <= 28 THEN 3 ELSE 4
    /\ out = Some(MkDate(steps[Len(steps)][1], steps[Len(steps)][2],
                         steps[Len(steps)][3]))

C25_ChainStaysValid ==
    call.fn = "shift_months" =>
        ChainHolds(call.date, ShiftSteps(call.date, call.months), call.out)

\* 2020-01-31 shifted by one month: 2020-01-01, 2020-02-01, 2020-02-01 and
\* then 2020-02-29
C25_Witness ==
    /\ call.fn = "shift_months"
    /\ call.date = MkDate(2020, 1, 31)
    /\ call.months = 1
    /\ ShiftSteps(call.date, call.months)
           = <<<<2020, 1, 1>>, <<2020, 2, 1>>, <<2020, 2, 1>>, <<2020, 2, 29>>>>
    /\ call.out = Some(MkDate(2020, 2, 29))

(***************************************************************************)
(* C26: the shift of lib.rs succeeds for every naive date and every month  *)
(* count m: the month it computes lies in 1..=12, none of its unwraps      *)
(* fails, and shift(date, 0, m) returns the date that shift_months of      *)
(* delta.rs returns.                                                       *)
(***************************************************************************)
C26_ShiftSucceeds ==
    call.fn = "shift" =>
        /\ ShiftYearMonth(call.date, 0, call.arg)[2] \in 1..12
        /\ ~IsPanic(call.out)
        /\ call.out = shift_months(call.date, call.arg)

\* what holds instead: the month computed is date.month() + m % 12 carried
\* down but never up, shift panics exactly when that exceeds 12, and returns
\* the date of shift_months otherwise
C26_SameUnlessCarry ==
    call.fn = "shift" =>
        /\ IsPanic(call.out) <=> call.date.month + TruncRem(call.arg, 12) > 12
        /\ ~IsPanic(call.out) => call.out = shift_months(call.date, call.arg)

\* 2020-01-31 shifted by 13 months, as test_shift_months of lib.rs has it
C26_Witness ==
    /\ call.fn = "shift"
    /\ call.date = MkDate(2020, 1, 31)
    /\ call.arg = 13
    /\ call.out = MkDate(2021, 2, 28)

(***************************************************************************)
(* C27: in every DateRule reached by new, with_count, with_end,            *)
(* with_rolling_day and next, count and end are never both set: with_count *)
(* sets the count and clears the end, with_end sets the end and clears the *)
(* count, with_rolling_day keeps both as its receiver has them; and a      *)
(* rolling_day that the receiver has set is set in the rule a builder      *)
(* returns.                                                                *)
(***************************************************************************)
\* the argument of the call that made the rule, when that is the last
\* builder call
MadeWith(rule, by, field) ==
    (outcome.ok /\ outcome.op = by.op) => field = Some(outcome.arg)

BuilderKeeps(rule, by) ==
    /\ by.op = "with_count" =>
           /\ IsSome(rule.count) /\ IsNone(rule.end)
           /\ MadeWith(rule, by, rule.count)
    /\ by.op = "with_end" =>
           /\ IsSome(rule.end) /\ IsNone(rule.count)
           /\ MadeWith(rule, by, rule.end)
    /\ by.op = "with_rolling_day" =>
           /\ rule.count = by.recv.count /\ rule.end = by.recv.end
           /\ IsSome(rule.rolling_day)
           /\ MadeWith(rule, by, rule.rolling_day)
    /\ by.op \in {"with_count", "with_end"} =>
           rule.rolling_day = by.recv.rolling_day
    /\ IsSome(by.recv.rolling_day) => IsSome(rule.rolling_day)

C27_CountOrEnd ==
    \A i \in 1..Len(rules) :
        /\ ~(IsSome(rules[i].count) /\ IsSome(rules[i].end))
        /\ BuilderKeeps(rules[i], made[i])

\* with_count on a rule that has an end and a rolling day
C27_Witness ==
    /\ made[1].op = "with_count"
    /\ IsSome(made[1].recv.end)
    /\ IsSome(made[1].recv.rolling_day)
    /\ IsSome(rules[1].count) /\ IsNone(rules[1].end)
    /\ rules[1].current_count > 0

(***************************************************************************)
(* C28: the cursor of a DateRule is the number of values its next() has    *)
(* returned along the chain since the last new, with_count or with_end     *)
(* (with_rolling_day hands the cursor of its receiver on): a Some adds one *)
(* to it, a None leaves it, and with a count set it never exceeds the      *)
(* count.                                                                  *)
(***************************************************************************)
\* the cursor the rule was made with
CursorAtBuild(by) ==
    IF by.op = "with_rolling_day" THEN by.recv.current_count ELSE 0

C28_CursorCountsSomes ==
    \A i \in 1..Len(rules) :
        /\ rules[i].current_count = CursorAtBuild(made[i]) + Len(emitted[i])
        /\ IsSome(rules[i].count) =>
               rules[i].current_count <= rules[i].count.val

\* a rule made by with_rolling_day from a rule that had returned values, and
\* which has itself returned a value and then nothing
C28_Witness ==
    /\ made[1].op = "with_rolling_day"
    /\ made[1].recv.current_count > 0
    /\ Len(emitted[1]) > 0
    /\ nones[1] > 0
    /\ rules[1].current_count = made[1].recv.current_count + Len(emitted[1])

(***************************************************************************)
(* C30: shift_months_opt(d, n), shift_years_opt(d, n) and                  *)
(* with_year_opt(d, y) return Some or None for every date d and every i32  *)
(* argument, never a panic, and never a date computed from a wrapped       *)
(* value: the result is Some of the date the exact month count leads to    *)
(* when NaiveDate can hold it, and None when it cannot.                    *)
(***************************************************************************)
\* the months since the start of year 0 of the first of the date's month
MonthNumber(date) == WideOfInt(date.year * 12 + (date.month - 1))

\* the date of a month number with the day clipped to the month, None when
\* the year lies outside NaiveDate
DateOfMonthNumber(n, day) ==
    The({IF WideLe(WideOfInt(-262143), v[1]) /\ WideLe(v[1], WideOfInt(262142))
         THEN Some(MkDate(IntOfWide(v[1]), v[2] + 1,
                          Min(day, DaysInMonth(IntOfWide(v[1]), v[2] + 1))))
         ELSE None :
            v \in {IF WideRem(n, 12) < 0
                   THEN <<WideAdd(WideDiv(n, 12), WideOfInt(-1)), WideRem(n, 12) + 12>>
                   ELSE <<WideDiv(n, 12), WideRem(n, 12)>>}})

\* the months each call shifts by, computed exactly
ExactShiftMonths(c) ==
    IF c.fn = "shift_months_opt" THEN WideOfInt(c.arg)
    ELSE IF c.fn = "shift_years_opt" THEN WideMul(WideOfInt(c.arg), 12)
    ELSE WideMul(WideAdd(WideOfInt(c.arg), WideOfInt(-c.date.year)), 12)

ExactShift(c) ==
    DateOfMonthNumber(WideAdd(MonthNumber(c.date), ExactShiftMonths(c)),
                      c.date.day)

C30_NeverOverflows ==
    call.fn # "none" => (~IsPanic(call.out) /\ call.out = ExactShift(call))

\* the sums and products the code forms: x * 12 and date.month() + months
AllWithinI32(c) ==
    /\ InI32(ExactShiftMonths(c))
    /\ InI32(WideAdd(WideOfInt(c.date.month), ExactShiftMonths(c)))
    /\ c.fn = "with_year_opt" =>
           InI32(WideAdd(WideOfInt(c.arg), WideOfInt(-c.date.year)))

\* what holds: a call none of whose sums and products leaves i32 returns the
\* exact result, and any other call panics or leaves the exact result
C30_ExactWithinI32 ==
    call.fn # "none" =>
        /\ AllWithinI32(call) => call.out = ExactShift(call)
        /\ IsPanic(call.out) => ~AllWithinI32(call)

\* shift_years_opt(2020-01-31, 357913942): 357913942 * 12 is 2^32 + 8, and
\* the build without overflow checks shifts by 8 months
C30_WrappedDate ==
    /\ call.fn = "shift_years_opt"
    /\ call.date = MkDate(2020, 1, 31)
    /\ call.arg = 357913942
    /\ call.out = Some(MkDate(2020, 9, 30))

(***************************************************************************)
(* C29: for every number N of values a DateRule has returned, the          *)
(* multiplier its next() applies to the step is N: the cast of the cursor  *)
(* to i32 and the products with it neither wrap nor panic, so no value is  *)
(* returned that was computed from a wrapped multiplier.                   *)
(***************************************************************************)
C29_MultiplierIsCursor ==
    call.fn = "next" =>
        /\ ~IsPanic(call.item)
        /\ IsSome(call.multiplier) =>
               WideOfInt(call.multiplier.val) = call.before

\* origin + step * N with N taken exactly: the months shifted, then the
\* whole days of N times the seconds
ExactStepSeconds(freq, n) ==
    IF freq.duration >= 0 THEN WideMul(n, freq.duration)
    ELSE WideNeg(WideMul(n, -freq.duration))

ExactNth(rule, n) ==
    NaiveAddWide(shift_months(rule.start, rule.freq.months * IntOfWide(n)),
                 ExactStepSeconds(rule.freq, n))

\* what holds: below 2^31 returned values the multiplier is the cursor and
\* the value returned is origin + step * N
C29_ExactBelowTwoTo31 ==
    (call.fn = "next" /\ WideLe(call.before, I32Max)) =>
        /\ call.multiplier = Some(IntOfWide(call.before))
        /\ call.item = Some(ExactNth(call.rule, call.before))

\* after 2^31 values a rule of seconds(1) from 2020-01-30 returns the date
\* 2^31 seconds before its origin
C29_WrappedMultiplier ==
    /\ call.fn = "next"
    /\ call.before = TwoTo31
    /\ call.multiplier = Some(I32MinInt)
    /\ call.rule.freq = RelativeDuration(0, 1)
    /\ call.rule.start = MkDate(2020, 1, 30)
    /\ call.item = Some(MkDate(1952, 1, 12))

====
